---- MODULE Spec2Model ----
(***************************************************************************)
(* Fleet control plane: the server-side TokenBroker                        *)
(* (management-system/backend/app/routers/api_agents.py) and the           *)
(* agent-side SecureDataStore (node-agent/src/data_store.py).              *)
(*                                                                         *)
(* Strings that are formatted and parsed by the code are sequences of      *)
(* one-character strings, so that "|".join / split is computed, not        *)
(* assumed.                                                                *)
(***************************************************************************)
EXTENDS Integers, Sequences, FiniteSets, TLC

\* ------------------------------------------------------------------ bounds
\* Rows the logs table holds: no request is accepted that could exceed it.
MaxLogs == 4
\* Rows the agents table holds.
MaxAgents == 2
MaxSockets == 2
MaxFrames == 1
\* The clock stops advancing here (minutes).
MaxTime == 60

\* ------------------------------------------------------- program constants
TOKEN_EXPIRATION_MINUTES == 30

\* ------------------------------------------------------------ value sets
\* Requests handled at the same time.
Workers == {1, 2}
Names == {"n1", "n2"}
\* system_settings values: the empty string is falsy ("not configured").
Addresses == {<< >>, <<"h">>, <<"h", "|">>}
Ports == {<<"8">>, <<"9">>}
\* registration_token_encryption_key: NoKey is "no such row".
NoKey == "nokey"
\* secrets.token_urlsafe(16): URL-safe characters only.
Nonces == {<<"r">>}
\* A nonce the server never drew: a token carrying it was never stored.
ForgedNonce == <<"s">>
None == "None"
\* A NULL column; a timestamp column that is set holds <<t>>.
NULL == << >>


RECURSIVE Str(_)
\* str(int) inside the f-string of the raw token
Str(n) ==
    LET digit == <<"0", "1", "2", "3", "4", "5", "6", "7", "8", "9">>[(n % 10) + 1]
    IN  IF n < 10 THEN <<digit>> ELSE Str(n \div 10) \o <<digit>>

\* f"{agent_id}|{management_address}|{management_port}|{nonce}"
RawToken(agent_id, address, port, nonce) ==
    Str(agent_id) \o <<"|">> \o address \o <<"|">> \o port \o <<"|">> \o nonce

RECURSIVE SplitFrom(_, _, _)
\* str.split(sep): cur is the field being collected
SplitFrom(s, sep, cur) ==
    IF s = << >> THEN <<cur>>
    ELSE IF Head(s) = sep THEN <<cur>> \o SplitFrom(Tail(s), sep, << >>)
    ELSE SplitFrom(Tail(s), sep, Append(cur, Head(s)))

Split(s, sep) == SplitFrom(s, sep, << >>)

\* Fernet: a ciphertext opens only under the key that made it.
Encrypt(key, plain) == [key |-> key, plain |-> plain]
Decrypt(key, token) == token.plain

\* A token that no key opens (not a Fernet ciphertext at all).
Garbage == [key |-> "none", plain |-> << >>]

\* ------------------------------------------------------------------ state
VARIABLES
    settings,   \* system_settings: [address, port, key]
    agents,     \* agents table: sequence, index = SERIAL id
    tokens,     \* agent_registration_tokens: set of rows
    tokSeq,     \* SERIAL id of agent_registration_tokens
    logs,       \* logs table: the number of rows the registration handlers wrote
    now,        \* datetime.utcnow(), minutes
    req,        \* per worker: the request it is handling, or its outcome
    issued      \* tokens returned by pre_register, each with the address and
                \* port its pre_register call read from the settings

brokerVars == <<settings, agents, tokens, tokSeq, logs, now, req, issued>>

\* SecureDataStore (node agent)
VARIABLES
    conn,            \* self.conn is a connection (TRUE) or None (FALSE)
    agent_config,    \* agent_config table: set of rows, key is the primary key
    config_backups,  \* config_backups table: sequence of rows, oldest first
    credentials,     \* credentials table: set of rows, UNIQUE(credential_type, identifier)
    clock,           \* time.time()
    ret,             \* the last store call and what it returned
    written,         \* per config key: the value of the last set_config that returned
                     \* True, until a delete_config of the key
    kept,            \* per credential: the value and expiry last stored
    tables,          \* the log-style tables: per table its rows, oldest insert first
    lock             \* self.lock is held

storeVars == <<conn, agent_config, config_backups, credentials, clock, ret, written, kept,
               tables, lock>>

\* CommunicationManager (node agent)
VARIABLES
    running,             \* self.running
    connected,           \* self.connected
    reconnecting,        \* self.reconnecting
    websocket,           \* self.websocket is a socket (TRUE) or None (FALSE)
    sock,                \* the socket last opened: "none", "open", closed by a
                         \* close handshake ("closed_ok") or by an error ("closed_err")
    session,             \* self.session is an HTTP session (TRUE) or None (FALSE)
    reconnect_interval,  \* self.reconnect_interval
    pending_commands,    \* self.pending_commands
    mgr,                 \* where the _websocket_manager task is
    stopper,             \* where a stop() call is
    snd,                 \* a send_response / send_status_update call and what it did
    timer,               \* what is left of the manager's asyncio.sleep
    sinceEnd,            \* time since the last socket close or failed connect
    sinceAttempt,        \* time since the last connect attempt started
    ncmd,                \* command frames received so far (they are numbered 1..ncmd)
    returned,            \* every command get_pending_commands returned, in order
    first_sent,          \* the type of the first frame handed to the socket last opened
    message_handlers,    \* the keys of self.message_handlers
    effect               \* the last inbound frame and what was done with it

linkVars == <<running, connected, reconnecting, websocket, sock, session,
              reconnect_interval, pending_commands, mgr, stopper, snd, timer,
              sinceEnd, sinceAttempt, ncmd, returned, first_sent, message_handlers,
              effect>>

\* NodeAgent (node agent)
VARIABLES
    agent_running,       \* NodeAgent.running
    agent_pc,            \* where run() is
    store_cfg,           \* the registration items the secure store holds
    file_cfg,            \* the items agent.json holds, or NoFile
    config,              \* the items self.config holds with a truthy value
    comms,               \* self.comms: "none", "constructed", "started", "stopped"
    data_store,          \* self.data_store: "none", "open", "closed"
    exit_code,           \* what run() returned, NULL before
    arrived,             \* the command frames the manager has queued
    batch,               \* what is left of `for command in commands`
    dispatched,          \* the commands handle_command was called with
    task_logs,           \* the rows of the task_logs table
    responses,           \* the send_response calls made
    critical,            \* CRITICAL rows written by the main loop
    nap,                 \* the seconds of the main loop's last sleep
    nframe               \* command frames received so far

agentVars == <<agent_running, agent_pc, store_cfg, file_cfg, config, comms, data_store,
               exit_code, arrived, batch, dispatched, task_logs, responses, critical,
               nap, nframe>>

\* The server's WebSocket endpoint /ws/agents/{agent_id}
\* (management-system/backend/app/routers/websocket.py)
VARIABLES
    active_connections,  \* agent_id -> the socket registered for it (0: no entry)
    sockets,             \* per socket: the agent_id of its path, where its handler
                         \* is, whether the peer still holds it, frames received
    ws_logs              \* rows the endpoint wrote to the logs table

hubVars == <<active_connections, sockets, ws_logs>>

\* What a step of one component leaves alone.
nonBrokerVars == <<storeVars, linkVars, agentVars, hubVars>>
nonStoreVars == <<brokerVars, linkVars, agentVars, hubVars>>
nonLinkVars == <<brokerVars, storeVars, agentVars, hubVars>>
nonAgentVars == <<brokerVars, storeVars, linkVars, hubVars>>
nonHubVars == <<brokerVars, storeVars, linkVars, agentVars>>

vars == <<brokerVars, storeVars, linkVars, agentVars, hubVars>>

\* ------------------------------------------------ SecureDataStore: values
MaxClock == 2
    \* time.time() stops here
MaxBackups == 1
    \* Rows the config_backups table holds
MaxRows == 2
    \* Rows the log-style tables hold together

Keys == {"k1", "k2"}
TableNames == {"metrics", "logs", "task_logs", "module_data", "communication_logs"}
\* The (credential_type, identifier) pairs the agent keeps
CredKeys == {<<"registration", "token">>, <<"system", "device_id">>,
             <<"communication", "api_key">>}
\* The credential the single-credential specifications store and replace
TokenKeys == {<<"registration", "token">>}
\* A credential value and the value that replaces it
CredValues == {"s1", "s2"}
\* expires_at as stored: NULL, the epoch, a later instant
Expiries == {NULL, <<0>>, <<1>>}

\* A Python value: its type, for a dict its keys (each with its own type),
\* and its items.
PyKey(type, repr) == [type |-> type, repr |-> repr]
PyValue(type, keys, vals) == [type |-> type, keys |-> keys, vals |-> vals]
PyNone == PyValue("NoneType", << >>, << >>)
PyList == PyValue("list", << >>, <<"a">>)
PyTuple == PyValue("tuple", << >>, <<"a">>)
PyDictStr == PyValue("dict", <<PyKey("str", "1")>>, <<"a">>)
PyDictInt == PyValue("dict", <<PyKey("int", "1")>>, <<"a">>)
PySet == PyValue("set", << >>, <<"a">>)
PyValues == {PyList, PyTuple, PyDictStr, PyDictInt, PySet}

\* json.dumps(value, sort_keys=True): a list and a tuple both become an array,
\* every dict key becomes a string, a set raises TypeError. The text is kept
\* as the document it spells.
Serializable(value) == value.type \in {"NoneType", "list", "tuple", "dict"}
json_dumps(value) ==
    IF value.type = "NoneType" THEN [type |-> "null", keys |-> << >>, vals |-> << >>]
    ELSE IF value.type = "dict"
    THEN [type |-> "object", keys |-> [i \in DOMAIN value.keys |-> value.keys[i].repr],
          vals |-> value.vals]
    ELSE [type |-> "array", keys |-> << >>, vals |-> value.vals]

\* json.loads(text): an array becomes a list, an object a dict with str keys
json_loads(text) ==
    IF text.type = "null" THEN PyNone
    ELSE IF text.type = "object"
    THEN PyValue("dict", [i \in DOMAIN text.keys |-> PyKey("str", text.keys[i])], text.vals)
    ELSE PyValue("list", << >>, text.vals)

\* hashlib.sha256(data.encode()).hexdigest()
calculate_checksum(data) == [sha256 |-> data]
\* Fernet: the stored text is a ciphertext of data, or (Plain) data itself
encrypt_data(data) == [fernet |-> TRUE, data |-> data]
Plain(data) == [fernet |-> FALSE, data |-> data]
decrypt_data(encrypted_data) == encrypted_data.data

\* No value set / no credential stored / no call made yet
Unset == PyValue("unset", << >>, << >>)
NoCred == [value |-> None, expires_at |-> NULL]
NoCall == [op |-> "none", key |-> None, cred |-> <<None, None>>, ok |-> FALSE,
           value |-> Unset, secret |-> None, rows |-> << >>, warning |-> None,
           count |-> 0, dict |-> << >>]

\* SecureDataStore.__init__ on a new database file
StoreConstructed ==
    /\ conn = FALSE
    /\ agent_config = {}
    /\ config_backups = << >>
    /\ credentials = {}
    /\ clock = 1
    /\ ret = NoCall
    /\ written = [k \in Keys |-> Unset]
    /\ kept = [c \in CredKeys |-> NoCred]
    /\ tables = [t \in TableNames |-> << >>]
    /\ lock = FALSE

\* -------------------------------------------- CommunicationManager: values
MaxCommands == 2
    \* Command frames the server sends

\* reconnect_interval arguments, in ticks of the clock
Intervals == {1, 2}
\* A time no smaller than any interval: the time counters stop there
Far == CHOOSE i \in Intervals : \A j \in Intervals : j <= i
\* Frames by their "type"
Frames == {"command", "ping", "other"}
\* No send call made yet; ws is what became of the WebSocket send ("skipped":
\* not connected, nothing was sent), posts counts the HTTP POSTs
NoSend == [pc |-> "idle", kind |-> None, ws |-> "none", posts |-> 0]

\* No inbound frame handled yet; did is "queued", "pong", "handler" or
\* "dropped", sent whether a frame was handed to the socket in reply, invoked
\* the handlers that were called
NoFrame == [type |-> None, did |-> "none", sent |-> FALSE, invoked |-> << >>]

\* CommunicationManager.__init__
LinkConstructed(interval) ==
    /\ running = FALSE
    /\ connected = FALSE
    /\ reconnecting = FALSE
    /\ websocket = FALSE
    /\ sock = "none"
    /\ session = FALSE
    /\ reconnect_interval = interval
    /\ pending_commands = << >>
    /\ mgr = "none"
    /\ stopper = "idle"
    /\ snd = NoSend
    /\ timer = 0
    /\ sinceEnd = Far
    /\ sinceAttempt = Far
    /\ ncmd = 0
    /\ returned = << >>
    /\ first_sent = "none"
    /\ message_handlers = {}
    /\ effect = NoFrame

\* ----------------------------------------------------- NodeAgent: values
\* What registers an agent: the config key and the two credentials
Items == {"management_url", "api_key", "device_id"}
\* agent.json does not exist
NoFile == {"<no file>"}
\* The "id" of a command frame, as JSON: no "id" key, null, 0, a string, a list
NoId == "<absent>"
CommandIds == {NoId, "null", "0", "c1", "[1]"}

\* NodeAgent.__init__ on a machine whose store and config file hold these items
AgentConstructed(in_store, in_file) ==
    /\ agent_running = FALSE
    /\ agent_pc = "run"
    /\ store_cfg = in_store
    /\ file_cfg = in_file
    /\ config = {}
    /\ comms = "none"
    /\ data_store = "none"
    /\ exit_code = NULL
    /\ arrived = << >>
    /\ batch = << >>
    /\ dispatched = << >>
    /\ task_logs = << >>
    /\ responses = << >>
    /\ critical = 0
    /\ nap = 0
    /\ nframe = 0

\* websocket.py at import: active_connections = {}; no client has connected
NoSocket == [pc |-> "none", agent_id |-> 0, open |-> FALSE, received |-> 0]

HubConstructed ==
    /\ active_connections = [agent_id \in 1..MaxAgents |-> 0]
    /\ sockets = [s \in 1..MaxSockets |-> NoSocket]
    /\ ws_logs = 0

\* ------------------------------------------------------------ TokenBroker
\* A worker with no request; the fields are the handler's arguments, its
\* locals and, at pc "done", what it returned (result, token or address/port).
Idle == [op |-> "none", pc |-> "idle", name |-> None, token |-> Garbage,
         agent_id |-> 0, tok_agent |-> << >>, address |-> << >>, port |-> << >>,
         row |-> 0, result |-> None]

Init ==
    /\ settings \in [address : {<<"h">>}, port : {<<"8">>}, key : {NoKey, "k1"}]
    /\ agents = << >>
    /\ tokens = {}
    /\ tokSeq = 1
    /\ logs = 0
    /\ now = 0
    /\ req = [w \in Workers |-> Idle]
    /\ issued = {}
    /\ StoreConstructed
    /\ LinkConstructed(Far)
    /\ AgentConstructed({}, NoFile)
    /\ HubConstructed

\* ------------------------------------------------------------- log sink
\* log_event: INSERT INTO logs (level, source, message, metadata); commit
log_event(level, message) == logs' = logs + 1

\* Rows a request at this point of its handler may still write.
RowsToWrite(pc) == IF pc = "p_insert" THEN 2 ELSE IF pc \in {"p_token", "v_write"} THEN 1 ELSE 0

RECURSIVE Sum(_, _)
Sum(f, S) == IF S = {} THEN 0 ELSE LET x == CHOOSE y \in S : TRUE IN f[x] + Sum(f, S \ {x})

\* A request is dispatched to the first free worker, while the logs table
\* has room for the rows it and the requests in flight may write.
Free(w, rows) ==
    /\ req[w].pc \in {"idle", "done"}
    /\ \A v \in Workers : v < w => req[v].pc \notin {"idle", "done"}
    /\ logs + Sum([v \in Workers |-> RowsToWrite(req[v].pc)], Workers) + rows <= MaxLogs

\* ------------------------------------------------------------ statements
\* Variant: the row is inserted already active.
InsertAgentActive(name) ==
    Append(agents, [name |-> name, status |-> "active", registered_at |-> NULL])

\* INSERT INTO agents (name, status) VALUES (:name, 'pending') RETURNING id
InsertAgent(name) ==
    Append(agents, [name |-> name, status |-> "pending", registered_at |-> NULL])

\* UPDATE agents SET status = 'active', registered_at = CURRENT_TIMESTAMP WHERE id = :agent_id
\* (:agent_id is the decimal string taken from the token)
ActivateAgent(agent_id) ==
    [i \in DOMAIN agents |->
        IF Str(i) = agent_id
        THEN [agents[i] EXCEPT !.status = "active", !.registered_at = <<now>>]
        ELSE agents[i]]

\* Variant: ... WHERE agent_id = :agent_id
MatchingRowsByAgent(agent_id, token) ==
    {r \in tokens : Str(r.agent_id) = agent_id}

\* SELECT id, expires_at FROM agent_registration_tokens WHERE agent_id = :agent_id AND token = :token
MatchingRows(agent_id, token) ==
    {r \in tokens : Str(r.agent_id) = agent_id /\ r.token = token}

\* result["expires_at"] < datetime.utcnow()
Expired(r) == r.expires_at < now

\* DELETE FROM agent_registration_tokens WHERE id = :id
DeleteToken(id) == {r \in tokens : r.id # id}

\* decrypt, then unpack the four "|"-separated fields; anything else raises
Parts(token) == Split(Decrypt(settings.key, token), "|")
WellFormed(token) == token.key = settings.key /\ Len(Parts(token)) = 4

\* if not result or result["expires_at"] < datetime.utcnow(): one error for both
LookupFailed(rows) == rows = {} \/ \E r \in rows : Expired(r)

LookupDetail(rows) == "Token is expired or invalid"

\* Variant: the connection details are read from the current settings.
ConnectionDetailsNow(token) == <<settings.address, settings.port>>

\* "connection_details": {"address": address, "port": port}, from the token
ConnectionDetails(token) == <<Parts(token)[2], Parts(token)[3]>>

\* ------------------------------------------------------- pre_register_agent
\* except Exception: log the failure and re-raise (HTTP error with detail)
PreRegisterFail(w, r, detail) ==
    /\ log_event("ERROR", "Agent registration failed")
    /\ req' = [req EXCEPT ![w] = [Idle EXCEPT !.op = "register", !.name = r.name,
                                              !.pc = "done", !.result = detail]]

\* POST /agents/register: read the settings, check that the name is free
PreRegisterStart(w, name) ==
    /\ Free(w, 2)
    /\ Len(agents) + Cardinality({v \in Workers : req[v].pc = "p_insert"}) < MaxAgents
    /\ LET r == [Idle EXCEPT !.op = "register", !.name = name] IN
       IF settings.address = << >> \/ settings.port = << >>
       THEN PreRegisterFail(w, r, "Management system address or port not configured")
       ELSE IF \E i \in DOMAIN agents : agents[i].name = name
       THEN PreRegisterFail(w, r, "Agent name already exists")
       ELSE /\ req' = [req EXCEPT ![w] = [r EXCEPT !.pc = "p_insert",
                            !.address = settings.address, !.port = settings.port]]
            /\ UNCHANGED logs
    /\ UNCHANGED nonBrokerVars
    /\ UNCHANGED <<settings, agents, tokens, tokSeq, now, issued>>

\* INSERT the pending agent, commit, log
PreRegisterInsert(w) ==
    /\ req[w].pc = "p_insert"
    /\ agents' = InsertAgent(req[w].name)
    /\ log_event("INFO", "New agent pre-registered")
    /\ req' = [req EXCEPT ![w].pc = "p_token", ![w].agent_id = Len(agents')]
    /\ UNCHANGED nonBrokerVars
    /\ UNCHANGED <<settings, tokens, tokSeq, now, issued>>

\* fetch the key, make and store the token, log, return it
PreRegisterToken(w) ==
    /\ req[w].pc = "p_token"
    /\ IF settings.key = NoKey
       THEN /\ PreRegisterFail(w, req[w], "Encryption key not configured")
            /\ UNCHANGED <<tokens, tokSeq, issued>>
       ELSE \E nonce \in Nonces :
            LET raw_token == RawToken(req[w].agent_id, req[w].address, req[w].port, nonce)
                encrypted_token == Encrypt(settings.key, raw_token)
            IN  /\ tokens' = tokens \cup {[id |-> tokSeq, agent_id |-> req[w].agent_id,
                                            token |-> encrypted_token,
                                            expires_at |-> now + TOKEN_EXPIRATION_MINUTES]}
                /\ tokSeq' = tokSeq + 1
                /\ log_event("INFO", "Registration token generated")
                /\ req' = [req EXCEPT ![w] = [Idle EXCEPT !.op = "register", !.name = req[w].name,
                                !.pc = "done", !.result = "ok", !.token = encrypted_token]]
                /\ issued' = issued \cup {[token |-> encrypted_token,
                                            agent_id |-> req[w].agent_id,
                                            address |-> req[w].address, port |-> req[w].port]}
    /\ UNCHANGED nonBrokerVars
    /\ UNCHANGED <<settings, agents, now>>

\* ------------------------------------------------ validate_registration_token
\* Tokens a caller can present: the issued ones, a well-formed token made
\* with the configured key that the server never stored, and garbage.
ForgedTokens ==
    {Encrypt(k, RawToken(i, <<"h">>, <<"8">>, ForgedNonce)) :
        i \in DOMAIN agents, k \in {settings.key} \ {NoKey}}
IssuedTokens == {i.token : i \in issued}
Presentable == IssuedTokens \cup ForgedTokens \cup {Garbage}

\* Variant: the failure is raised without being logged.
ValidateFailSilent(w, token, detail) ==
    /\ UNCHANGED logs
    /\ req' = [req EXCEPT ![w] = [Idle EXCEPT !.op = "validate", !.token = token,
                                              !.pc = "done", !.result = detail]]

\* except Exception: log the failure and re-raise (HTTP error with detail)
ValidateFail(w, token, detail) ==
    /\ log_event("ERROR", "Token validation failed")
    /\ req' = [req EXCEPT ![w] = [Idle EXCEPT !.op = "validate", !.token = token,
                                              !.pc = "done", !.result = detail]]

\* POST /agents/validate-token: fetch the key, decrypt, look the row up
ValidateStart(w, token) ==
    /\ Free(w, 1)
    /\ IF settings.key = NoKey
       THEN ValidateFail(w, token, "Encryption key not configured")
       ELSE IF ~WellFormed(token)
       THEN ValidateFail(w, token, "Invalid or malformed token")
       ELSE LET agent_id == Parts(token)[1]
                rows == MatchingRows(agent_id, token)
            IN  \/ /\ LookupFailed(rows)
                   /\ ValidateFail(w, token, LookupDetail(rows))
                \/ \E r \in rows :
                   /\ ~Expired(r)
                   /\ req' = [req EXCEPT ![w] = [Idle EXCEPT !.op = "validate", !.token = token,
                                    !.pc = "v_write", !.tok_agent = agent_id,
                                    !.address = ConnectionDetails(token)[1],
                                    !.port = ConnectionDetails(token)[2],
                                    !.row = r.id]]
                   /\ UNCHANGED logs
    /\ UNCHANGED nonBrokerVars
    /\ UNCHANGED <<settings, agents, tokens, tokSeq, now, issued>>

\* activate the agent, delete the token row, commit, log, return
ValidateWrite(w) ==
    /\ req[w].pc = "v_write"
    /\ agents' = ActivateAgent(req[w].tok_agent)
    /\ tokens' = DeleteToken(req[w].row)
    /\ log_event("INFO", "Agent successfully activated")
    /\ req' = [req EXCEPT ![w] = [Idle EXCEPT !.op = "validate", !.token = req[w].token,
                    !.pc = "done", !.result = "ok",
                    !.address = req[w].address, !.port = req[w].port]]
    /\ UNCHANGED nonBrokerVars
    /\ UNCHANGED <<settings, tokSeq, now, issued>>

\* ------------------------------------------------------------ environment
\* POST /settings: UPDATE system_settings SET value = :value WHERE key = :key
update_setting(key, value) ==
    /\ settings' = [settings EXCEPT ![key] = value]
    /\ UNCHANGED nonBrokerVars
    /\ UNCHANGED <<agents, tokens, tokSeq, logs, now, req, issued>>

\* time passes
Tick ==
    /\ now + TOKEN_EXPIRATION_MINUTES <= MaxTime
    /\ now' = now + TOKEN_EXPIRATION_MINUTES
    /\ UNCHANGED nonBrokerVars
    /\ UNCHANGED <<settings, agents, tokens, tokSeq, logs, req, issued>>

Next ==
    \/ \E w \in Workers, name \in Names : PreRegisterStart(w, name)
    \/ \E w \in Workers : PreRegisterInsert(w)
    \/ \E w \in Workers : PreRegisterToken(w)
    \/ \E w \in Workers, token \in Presentable : ValidateStart(w, token)
    \/ \E w \in Workers : ValidateWrite(w)
    \/ \E a \in Addresses : update_setting("address", a)
    \/ \E p \in Ports : update_setting("port", p)
    \/ Tick

Spec == Init /\ [][Next]_vars

\* ======================================================== SecureDataStore
\* conn.commit(): the rows deleted since the last commit are gone for good
commit == [t \in TableNames |-> SelectSeq(tables[t], LAMBDA r : ~r.deleted)]

\* The connection is dropped or replaced with a transaction open: the rows
\* deleted since the last commit are back.
rollback == [t \in TableNames |->
                [i \in DOMAIN tables[t] |-> [tables[t][i] EXCEPT !.deleted = FALSE]]]

\* Variant: the lock stays held when the body ended by an exception.
WithLockKeptOnError(op) ==
    /\ ~lock
    /\ op
    /\ lock' = ~ret'.ok

\* async with self.lock: the operation waits until the lock is free, its body
\* runs with the lock held, and the lock is free again when the body is left,
\* by return or by exception. The tasks share one event loop and no body has
\* an await that suspends (the awaits inside are _create_tables,
\* _backup_config_change and store_config_backup, which run to their end), so
\* a body is one step of the loop.
WithLock(op) ==
    /\ ~lock
    /\ op
    /\ lock' = FALSE

\* initialize(): connect and create the tables if they do not exist
initialize ==
    /\ conn' = TRUE
    /\ tables' = rollback
    /\ ret' = [NoCall EXCEPT !.op = "initialize", !.ok = TRUE]
    /\ UNCHANGED <<agent_config, config_backups, credentials, clock, written, kept>>
    /\ UNCHANGED nonStoreVars

\* close(): drop the connection; the database file stays
close ==
    /\ conn' = FALSE
    /\ tables' = rollback
    /\ ret' = [NoCall EXCEPT !.op = "close", !.ok = conn]
    /\ UNCHANGED lock
    /\ UNCHANGED <<agent_config, config_backups, credentials, clock, written, kept>>
    /\ UNCHANGED nonStoreVars

ConfigRows(key) == {r \in agent_config : r.key = key}

\* Variant: a delete is not backed up.
backup_updates_only(key, config_type) ==
    IF ConfigRows(key) = {} \/ config_type = "deleted" THEN config_backups
    ELSE LET row == CHOOSE r \in ConfigRows(key) : TRUE
         IN  Append(config_backups,
                    [config_type |-> config_type, key |-> key, action |-> "update",
                     encrypted |-> row.encrypted, value |-> row.value])

\* _backup_config_change and store_config_backup: a row for the existing
\* config, holding its value column as stored
backup_config_change(key, config_type) ==
    IF ConfigRows(key) = {} THEN config_backups
    ELSE LET row == CHOOSE r \in ConfigRows(key) : TRUE
         IN  Append(config_backups,
                    [config_type |-> config_type, key |-> key,
                     action |-> IF config_type # "deleted" THEN "update" ELSE "delete",
                     encrypted |-> row.encrypted, value |-> row.value])

\* Variant: INSERT OR IGNORE keeps the existing row.
InsertOrIgnoreConfig(row) ==
    IF ConfigRows(row.key) = {} THEN agent_config \cup {row} ELSE agent_config

\* INSERT OR REPLACE INTO agent_config
InsertOrReplaceConfig(row) == {r \in agent_config : r.key # row.key} \cup {row}

\* set_config(key, value, config_type="general", encrypt)
set_config(key, value, encrypt) ==
    /\ ConfigRows(key) # {} => Len(config_backups) < MaxBackups
    /\ IF ~conn \/ ~Serializable(value)
       THEN /\ ret' = [NoCall EXCEPT !.op = "set_config", !.key = key, !.ok = FALSE]
            /\ UNCHANGED <<agent_config, config_backups, written, tables>>
       ELSE LET value_json == json_dumps(value)
                stored_value == IF encrypt THEN encrypt_data(value_json) ELSE Plain(value_json)
                checksum == calculate_checksum(value_json)
            IN  /\ config_backups' = backup_config_change(key, "general")
                /\ agent_config' = InsertOrReplaceConfig(
                        [key |-> key, value |-> stored_value, encrypted |-> encrypt,
                         checksum |-> checksum])
                /\ written' = [written EXCEPT ![key] = value]
                /\ tables' = commit
                /\ ret' = [NoCall EXCEPT !.op = "set_config", !.key = key, !.ok = TRUE]
    /\ UNCHANGED <<conn, credentials, clock, kept>>
    /\ UNCHANGED nonStoreVars

\* Variant: None, not the caller's default, for a row that does not verify.
ConfigValueOrNone(key, default) ==
    IF ~conn \/ ConfigRows(key) = {} THEN default
    ELSE LET row == CHOOSE r \in ConfigRows(key) : TRUE IN
         IF row.encrypted # row.value.fernet THEN PyNone
         ELSE IF calculate_checksum(decrypt_data(row.value)) # row.checksum THEN PyNone
         ELSE json_loads(decrypt_data(row.value))

\* What get_config(key, default) returns in the current state: the default
\* when the store is closed, the row is absent, the value does not decrypt or
\* the checksum of the text differs; else the parsed text.
ConfigValue(key, default) ==
    IF ~conn \/ ConfigRows(key) = {} THEN default
    ELSE LET row == CHOOSE r \in ConfigRows(key) : TRUE IN
         IF row.encrypted # row.value.fernet THEN default
         ELSE IF calculate_checksum(decrypt_data(row.value)) # row.checksum THEN default
         ELSE json_loads(decrypt_data(row.value))

\* get_config(key, default=None)
get_config(key, default) ==
    /\ ret' = [NoCall EXCEPT !.op = "get_config", !.key = key,
                             !.value = ConfigValue(key, default)]
    /\ UNCHANGED <<conn, agent_config, config_backups, credentials, clock, written, kept,
                   tables>>
    /\ UNCHANGED nonStoreVars

\* delete_config(key)
delete_config(key) ==
    /\ ConfigRows(key) # {} => Len(config_backups) < MaxBackups
    /\ IF ~conn \/ ConfigRows(key) = {}
       THEN /\ ret' = [NoCall EXCEPT !.op = "delete_config", !.key = key, !.ok = FALSE]
            /\ UNCHANGED <<agent_config, config_backups, written, tables>>
       ELSE /\ config_backups' = backup_config_change(key, "deleted")
            /\ tables' = commit
            /\ agent_config' = agent_config \ ConfigRows(key)
            /\ written' = [written EXCEPT ![key] = Unset]
            /\ ret' = [NoCall EXCEPT !.op = "delete_config", !.key = key, !.ok = TRUE]
    /\ UNCHANGED <<conn, credentials, clock, kept>>
    /\ UNCHANGED nonStoreVars

CredRows(c) == {r \in credentials : r.credential_type = c[1] /\ r.identifier = c[2]}

\* Variant: INSERT OR IGNORE keeps the existing row.
InsertOrIgnoreCredential(row) ==
    IF \E r \in credentials : r.credential_type = row.credential_type
                              /\ r.identifier = row.identifier
    THEN credentials ELSE credentials \cup {row}

\* INSERT OR REPLACE INTO credentials, UNIQUE(credential_type, identifier)
InsertOrReplaceCredential(row) ==
    {r \in credentials : ~(r.credential_type = row.credential_type
                           /\ r.identifier = row.identifier)} \cup {row}

\* store_credential(credential_type, identifier, value, metadata=None, expires_at)
store_credential(c, value, expires_at) ==
    /\ IF ~conn
       THEN /\ ret' = [NoCall EXCEPT !.op = "store_credential", !.cred = c, !.ok = FALSE]
            /\ UNCHANGED <<credentials, kept, tables>>
       ELSE /\ tables' = commit
            /\ credentials' = InsertOrReplaceCredential(
                    [credential_type |-> c[1], identifier |-> c[2],
                     encrypted_value |-> encrypt_data(value),
                     checksum |-> calculate_checksum(value),
                     expires_at |-> expires_at])
            /\ kept' = [kept EXCEPT ![c] = [value |-> value, expires_at |-> expires_at]]
            /\ ret' = [NoCall EXCEPT !.op = "store_credential", !.cred = c, !.ok = TRUE]
    /\ UNCHANGED <<conn, agent_config, config_backups, clock, written>>
    /\ UNCHANGED nonStoreVars

\* if expires_at and time.time() > expires_at
\* (Python truth of expires_at: None and 0 are false)
LazilyExpired(row) ==
    /\ row.expires_at # NULL /\ row.expires_at[1] # 0
    /\ clock > row.expires_at[1]

\* get_credential(credential_type, identifier): ret.warning is what it
\* logged with logger.warning. The checksum of the decrypted value is
\* calculated and then not used.
get_credential(c) ==
    /\ IF ~conn \/ CredRows(c) = {}
       THEN /\ ret' = [NoCall EXCEPT !.op = "get_credential", !.cred = c]
            /\ UNCHANGED <<credentials, kept, tables>>
       ELSE LET row == CHOOSE r \in CredRows(c) : TRUE IN
            IF LazilyExpired(row)
            THEN /\ credentials' = credentials \ CredRows(c)
                 /\ tables' = commit
                 /\ kept' = [kept EXCEPT ![c] = NoCred]
                 /\ ret' = [NoCall EXCEPT !.op = "get_credential", !.cred = c,
                                          !.warning = "Credential expired"]
            ELSE LET value == decrypt_data(row.encrypted_value)
                     calculated_checksum == calculate_checksum(value)
                 IN  /\ ret' = [NoCall EXCEPT !.op = "get_credential", !.cred = c,
                                              !.ok = TRUE, !.secret = value]
                     /\ UNCHANGED <<credentials, kept, tables>>
    /\ UNCHANGED <<conn, agent_config, config_backups, clock, written>>
    /\ UNCHANGED nonStoreVars

\* The database file is tampered with: the checksum column of a credential
\* row becomes the checksum of another text.
CorruptCredential(c) ==
    /\ \E row \in CredRows(c) :
          /\ row.checksum = calculate_checksum(decrypt_data(row.encrypted_value))
          /\ credentials' = (credentials \ {row}) \cup
                  {[row EXCEPT !.checksum = calculate_checksum("tampered")]}
    /\ UNCHANGED <<conn, agent_config, config_backups, clock, ret, written, kept, tables,
                   lock>>
    /\ UNCHANGED nonStoreVars

\* What list_credentials() returns: the (credential_type, identifier) of every
\* row (no row when the store is closed).
CredentialList == IF conn THEN {c \in CredKeys : CredRows(c) # {}} ELSE {}

\* list_credentials()
list_credentials ==
    /\ ret' = [NoCall EXCEPT !.op = "list_credentials", !.ok = conn]
    /\ UNCHANGED <<conn, agent_config, config_backups, credentials, clock, written, kept,
                   tables>>
    /\ UNCHANGED nonStoreVars

\* Variant: DELETE ... WHERE expires_at IS NOT NULL AND expires_at <= ?
SweptRowsThroughNow == {r \in credentials : r.expires_at # NULL /\ r.expires_at[1] <= clock}

\* DELETE FROM credentials WHERE expires_at IS NOT NULL AND expires_at < ?
SweptRows == {r \in credentials : r.expires_at # NULL /\ r.expires_at[1] < clock}

\* cleanup_expired_credentials()
cleanup_expired_credentials ==
    /\ IF ~conn
       THEN UNCHANGED <<credentials, kept, tables>>
       ELSE /\ credentials' = credentials \ SweptRows
            /\ tables' = IF SweptRows # {} THEN commit ELSE tables
            /\ kept' = [c \in CredKeys |-> IF CredRows(c) \subseteq SweptRows /\ CredRows(c) # {}
                                           THEN NoCred ELSE kept[c]]
    /\ ret' = [NoCall EXCEPT !.op = "cleanup_expired_credentials", !.ok = conn,
                             !.count = IF conn THEN Cardinality(SweptRows) ELSE 0]
    /\ UNCHANGED <<conn, agent_config, config_backups, clock, written>>
    /\ UNCHANGED nonStoreVars

\* generate_device_id(), generate_api_key() and generate_secure_token(48):
\* the values one call draws (n stands for the randomness)
Draws == {1, 2}
Generated(n) ==
    IF n = 1
    THEN [device_id |-> "nagt-device-1", api_key |-> "nagt_1", registration_token |-> "token1"]
    ELSE [device_id |-> "nagt-device-2", api_key |-> "nagt_2", registration_token |-> "token2"]

\* time.time() + (24 * 3600) is this much later (the clock counts days)
RegistrationLifetime == 1

\* Variant: `if not device_id:` always takes the branch.
NeverFound(value) == FALSE

\* `if not device_id:`, `if not api_key:`, `if not registration_token:`
Found(value) == value # None

\* One step of initialize_agent_credentials on the rows creds:
\* get_credential(c) (an expired row is deleted and gives None) and, when it
\* gave nothing, store_credential(c, new, expires_at=expires_at).
GetOrCreate(creds, c, new, expires_at) ==
    LET rows == {r \in creds : r.credential_type = c[1] /\ r.identifier = c[2]}
        live == {r \in rows : ~LazilyExpired(r)}
        value == IF live = {} THEN None
                 ELSE decrypt_data((CHOOSE r \in live : TRUE).encrypted_value)
    IN  IF Found(value)
        THEN [creds |-> creds, value |-> value, stored |-> FALSE]
        ELSE [creds |-> (creds \ rows) \cup
                            {[credential_type |-> c[1], identifier |-> c[2],
                              encrypted_value |-> encrypt_data(new),
                              checksum |-> calculate_checksum(new),
                              expires_at |-> expires_at]},
              value |-> new, stored |-> TRUE]

\* initialize_agent_credentials(): device_id, api_key and the registration
\* token are read, and each one that is missing is generated and stored; the
\* three values are returned (ret.count is the number stored). Each read and write takes the lock, which is
\* free and is taken without suspending. On a store that is not initialized
\* the reads give None and store_credential returns False, so generated values
\* are returned and nothing is stored.
initialize_agent_credentials(n) ==
    LET first == GetOrCreate(credentials, <<"system", "device_id">>,
                             Generated(n).device_id, NULL)
        second == GetOrCreate(first.creds, <<"communication", "api_key">>,
                              Generated(n).api_key, NULL)
        third == GetOrCreate(second.creds, <<"registration", "token">>,
                             Generated(n).registration_token,
                             <<clock + RegistrationLifetime>>)
    IN  /\ IF ~conn
           THEN /\ ret' = [NoCall EXCEPT !.op = "initialize_agent_credentials",
                                         !.dict = Generated(n)]
                /\ UNCHANGED <<credentials, kept, tables>>
           ELSE /\ credentials' = third.creds
                /\ tables' = IF credentials' # credentials THEN commit ELSE tables
                /\ kept' = [c \in CredKeys |->
                              LET rows == {r \in third.creds : r.credential_type = c[1]
                                                               /\ r.identifier = c[2]}
                              IN  IF rows = {} THEN NoCred
                                  ELSE IF rows \subseteq credentials THEN kept[c]
                                  ELSE LET r == CHOOSE r \in rows : TRUE
                                       IN  [value |-> decrypt_data(r.encrypted_value),
                                            expires_at |-> r.expires_at]]
                /\ ret' = [NoCall EXCEPT !.op = "initialize_agent_credentials",
                                         !.ok = TRUE,
                                         !.count = Cardinality({step \in {first, second, third} : step.stored}),
                                         !.dict = [device_id |-> first.value,
                                                   api_key |-> second.value,
                                                   registration_token |-> third.value]]
        /\ UNCHANGED <<conn, agent_config, config_backups, clock, written>>
        /\ UNCHANGED nonStoreVars

\* time passes
AdvanceClock ==
    /\ clock < MaxClock
    /\ clock' = clock + 1
    /\ UNCHANGED <<conn, agent_config, config_backups, credentials, ret, written, kept,
                   tables, lock>>
    /\ UNCHANGED nonStoreVars

\* ------------------------------------------- the log-style tables
\* The rows of a table the connection sees
Visible(table) == SelectSeq(tables[table], LAMBDA r : ~r.deleted)

\* store_metrics, store_log, store_task_log, store_module_data and
\* store_communication_log: INSERT one row and commit. kind is the column the
\* reads filter on (metric_type, level, task_id, module_id, direction);
\* stored remembers the text that was written.
store_entry(op, table, kind, data, timestamp) ==
    /\ Len(tables["metrics"]) + Len(tables["logs"]) + Len(tables["task_logs"])
       + Len(tables["module_data"]) + Len(tables["communication_logs"]) < MaxRows
    /\ IF ~conn \/ ~Serializable(data)
       THEN /\ ret' = [NoCall EXCEPT !.op = op, !.key = kind, !.ok = FALSE]
            /\ UNCHANGED tables
       ELSE LET data_json == json_dumps(data)
                row == [timestamp |-> IF timestamp = NULL \/ timestamp[1] = 0
                                      THEN clock ELSE timestamp[1],
                        kind |-> kind,
                        data |-> encrypt_data(data_json),
                        checksum |-> calculate_checksum(data_json),
                        deleted |-> FALSE,
                        stored |-> data_json]
            IN  /\ tables' = [commit EXCEPT ![table] = Append(@, row)]
                /\ ret' = [NoCall EXCEPT !.op = op, !.key = kind, !.ok = TRUE]
    /\ UNCHANGED <<conn, agent_config, config_backups, credentials, clock, written, kept>>
    /\ UNCHANGED nonStoreVars

store_metrics(metric_type, data, timestamp) ==
    store_entry("store_metrics", "metrics", metric_type, data, timestamp)

store_task_log(task_id, data, timestamp) ==
    store_entry("store_task_log", "task_logs", task_id, data, timestamp)

\* `if metric_type:`, `if task_id:` and `if since:`: None, the empty string and
\* zero add no condition
GivenText(arg) == arg \notin {None, ""}
GivenNumber(arg) == arg \notin {NULL, <<0>>}

\* WHERE kind = ? AND timestamp >= ?, each condition only when the argument is
\* given
Selected(table, kind, since) ==
    SelectSeq(Visible(table),
              LAMBDA r : /\ GivenText(kind) => r.kind = kind
                         /\ GivenNumber(since) => r.timestamp >= since[1])

\* ORDER BY timestamp DESC: every order of the rows with the timestamps
\* falling (rows of one timestamp come in any order)
NewestFirst(rows) ==
    LET orders == {q \in [DOMAIN rows -> DOMAIN rows] :
                      /\ \A i, j \in DOMAIN rows : i # j => q[i] # q[j]
                      /\ \A i, j \in DOMAIN rows :
                            i < j => rows[q[i]].timestamp >= rows[q[j]].timestamp}
    IN  {[i \in DOMAIN rows |-> rows[q[i]]] : q \in orders}

\* LIMIT ?: the first limit rows; SQLite puts no upper bound on the rows when
\* the expression is negative
Limited(rows, limit) ==
    SubSeq(rows, 1, IF limit < 0 \/ Len(rows) < limit THEN Len(rows) ELSE limit)

\* Variant: the checksum of the decrypted text is not compared.
VerifiedNoChecksum(row) == row.data.fernet

\* The row decrypts and the checksum of the decrypted text is the stored one.
Verified(row) ==
    /\ row.data.fernet
    /\ calculate_checksum(decrypt_data(row.data)) = row.checksum

\* What a read makes of a row it returns
Entry(row) == [timestamp |-> row.timestamp, kind |-> row.kind,
               data |-> json_loads(decrypt_data(row.data))]

\* The loop over the fetched rows: a row that fails is skipped
Decoded(rows) ==
    LET good == SelectSeq(rows, Verified)
    IN  [i \in DOMAIN good |-> Entry(good[i])]

\* get_metrics and get_task_logs
get_entries(op, table, kind, since, limit) ==
    /\ IF ~conn
       THEN ret' = [NoCall EXCEPT !.op = op, !.key = kind]
       ELSE \E rows \in NewestFirst(Selected(table, kind, since)) :
                ret' = [NoCall EXCEPT !.op = op, !.key = kind, !.ok = TRUE,
                                      !.rows = Decoded(Limited(rows, limit))]
    /\ UNCHANGED <<conn, agent_config, config_backups, credentials, clock, written, kept,
                   tables>>
    /\ UNCHANGED nonStoreVars

get_metrics(metric_type, since, limit) ==
    get_entries("get_metrics", "metrics", metric_type, since, limit)

get_task_logs(task_id, since, limit) ==
    get_entries("get_task_logs", "task_logs", task_id, since, limit)

\* The database file is damaged or tampered with: the data column of a row
\* becomes the ciphertext of another text ("altered") or no ciphertext at all
\* ("garbled"); the checksum column keeps its value.
Damages == {"altered", "garbled"}
Damaged(value, how) ==
    IF how = "altered" THEN encrypt_data(json_dumps(PyNone)) ELSE Plain(value.data)

CorruptRow(table, i, how) ==
    /\ i \in DOMAIN tables[table]
    /\ Verified(tables[table][i])
    /\ tables' = [tables EXCEPT ![table][i].data = Damaged(@, how)]
    /\ UNCHANGED <<conn, agent_config, config_backups, credentials, clock, ret, written, kept,
                   lock>>
    /\ UNCHANGED nonStoreVars

CorruptConfig(key, how) ==
    /\ \E row \in ConfigRows(key) :
          /\ row.checksum = calculate_checksum(decrypt_data(row.value))
          /\ row.encrypted = row.value.fernet
          /\ agent_config' = (agent_config \ {row}) \cup
                  {[row EXCEPT !.value = IF row.encrypted THEN Damaged(@, how)
                                         ELSE Plain(json_dumps(PyNone))]}
    /\ UNCHANGED <<conn, config_backups, credentials, clock, ret, written, kept, tables, lock>>
    /\ UNCHANGED nonStoreVars

\* self.retention_policies, in days, in the order the dict holds them
retention_policies ==
    [metrics |-> 30, logs |-> 7, task_logs |-> 90, module_data |-> 30, communication |-> 7]
PolicyOrder == <<"metrics", "logs", "task_logs", "module_data", "communication">>

\* The DELETEs of the sweep from the i-th policy on, over the tables tbls:
\* DELETE FROM {table_name} WHERE timestamp < cutoff_time, one policy after
\* the other; a table the database does not have raises and ends the loop
\* (done is FALSE). The clock counts days.
RECURSIVE SweepFrom(_, _)
SweepFrom(i, tbls) ==
    IF i > Len(PolicyOrder) THEN [done |-> TRUE, tables |-> tbls]
    ELSE LET table == PolicyOrder[i]
             cutoff_time == clock - retention_policies[table]
             table_name == IF table = "config" THEN "config_backups" ELSE table
         IN  IF table_name \notin TableNames THEN [done |-> FALSE, tables |-> tbls]
             ELSE SweepFrom(i + 1,
                     [tbls EXCEPT ![table_name] =
                         [j \in DOMAIN @ |->
                             [@[j] EXCEPT !.deleted = @ \/ tbls[table_name][j].timestamp
                                                            < cutoff_time]]])

\* _cleanup_old_data(), the body of the hourly _cleanup_loop: the DELETEs, then
\* commit (and VACUUM) unless a DELETE raised; the exception is logged.
cleanup_old_data ==
    /\ IF ~conn
       THEN /\ ret' = [NoCall EXCEPT !.op = "cleanup_old_data"]
            /\ UNCHANGED tables
       ELSE LET swept == SweepFrom(1, tables)
            IN  /\ tables' = IF swept.done
                             THEN [t \in TableNames |->
                                      SelectSeq(swept.tables[t], LAMBDA r : ~r.deleted)]
                             ELSE swept.tables
                /\ ret' = [NoCall EXCEPT !.op = "cleanup_old_data", !.ok = swept.done]
    /\ UNCHANGED <<conn, agent_config, config_backups, credentials, clock, written, kept>>
    /\ UNCHANGED nonStoreVars

Limits == {1, 1000}
\* The default argument of get_config calls
Defaults == {PyNone, PyDictStr}

\* Reads of the two log tables and of a key, with rows damaged in between;
\* the key is written once here (overwrites are StoreNext's).
QueryNext ==
    \/ WithLock(initialize)
    \/ close
    \/ WithLock(store_metrics("cpu", PyDictStr, NULL))
    \/ WithLock(store_task_log("t1", PyDictStr, NULL))
    \/ \E limit \in Limits : WithLock(get_metrics(None, NULL, limit))
    \/ \E limit \in Limits : WithLock(get_task_logs(None, NULL, limit))
    \/ \E table \in {"metrics", "task_logs"}, i \in 1..MaxRows, how \in Damages :
            CorruptRow(table, i, how)
    \/ \E e \in BOOLEAN : ConfigRows("k1") = {} /\ WithLock(set_config("k1", PyList, e))
    \/ \E default \in Defaults : WithLock(get_config("k1", default))
    \/ \E how \in Damages : CorruptConfig("k1", how)

\* The arguments of the reads that data_manager.py passes on from its command
\* line (--type, --task-id, --since-hours, --limit)
KindFilters == {None, "", "cpu", "t1"}
Sinces == {NULL, <<0>>, <<80>>}
ReadLimits == {0, 1, 1000}

\* Rows of two types and two ages are stored, damaged and read back.
ReadNext ==
    \/ WithLock(initialize)
    \/ close
    \/ \E metric_type \in {"cpu", "mem"}, timestamp \in {<<5>>, <<80>>} :
            WithLock(store_metrics(metric_type, PyDictStr, timestamp))
    \/ \E task_id \in {"t1", "t2"}, timestamp \in {<<5>>, <<80>>} :
            WithLock(store_task_log(task_id, PyDictStr, timestamp))
    \/ \E metric_type \in KindFilters, since \in Sinces, limit \in ReadLimits :
            WithLock(get_metrics(metric_type, since, limit))
    \/ \E task_id \in KindFilters, since \in Sinces, limit \in ReadLimits :
            WithLock(get_task_logs(task_id, since, limit))
    \/ \E table \in {"metrics", "task_logs"}, i \in 1..MaxRows, how \in Damages :
            CorruptRow(table, i, how)

\* The five store operations: name, table, and a value of the column the
\* table is filtered on
Stores == {<<"store_metrics", "metrics", "cpu">>, <<"store_log", "logs", "INFO">>,
           <<"store_task_log", "task_logs", "t1">>,
           <<"store_module_data", "module_data", "m1">>,
           <<"store_communication_log", "communication_logs", "sent">>}
\* timestamp arguments: none (now), or a day in the past
Timestamps == {NULL, <<5>>, <<80>>}

SweepNext ==
    \/ WithLock(initialize)
    \/ close
    \/ \E st \in Stores, timestamp \in Timestamps :
            WithLock(store_entry(st[1], st[2], st[3], PyDictStr, timestamp))
    \/ WithLock(cleanup_old_data)
    \/ WithLock(get_metrics(None, NULL, 1000))

StoreInit ==
    /\ settings = [address |-> <<"h">>, port |-> <<"8">>, key |-> "k1"]
    /\ agents = << >>
    /\ tokens = {}
    /\ tokSeq = 1
    /\ logs = 0
    /\ now = 0
    /\ req = [w \in Workers |-> Idle]
    /\ issued = {}
    /\ StoreConstructed
    /\ LinkConstructed(Far)
    /\ AgentConstructed({}, NoFile)
    /\ HubConstructed

StoreNext ==
    \/ WithLock(initialize)
    \/ close
    \/ \E k \in Keys, v \in PyValues, e \in BOOLEAN : WithLock(set_config(k, v, e))
    \/ \E k \in Keys : WithLock(get_config(k, PyNone))
    \/ \E k \in Keys : WithLock(delete_config(k))

StoreSpec == StoreInit /\ [][StoreNext]_vars

ReadSpec == StoreInit /\ [][ReadNext]_vars

QuerySpec == StoreInit /\ [][QueryNext]_vars

\* The credential operations alone, with a credential that is replaced
CredNext ==
    \/ WithLock(initialize)
    \/ close
    \/ \E c \in TokenKeys, v \in CredValues, e \in Expiries : WithLock(store_credential(c, v, e))
    \/ \E c \in TokenKeys : WithLock(get_credential(c))
    \/ WithLock(list_credentials)
    \/ WithLock(cleanup_expired_credentials)
    \/ AdvanceClock
    \/ \E c \in TokenKeys : CorruptCredential(c)

\* expires_at arguments around the two instants of the clock
ExpiryTimes == {NULL, <<0>>, <<1>>, <<2>>}

\* Two credentials with every kind of expiry, read one by one and swept
ExpiryNext ==
    \/ WithLock(initialize)
    \/ close
    \/ \E c \in {<<"registration", "token">>, <<"system", "device_id">>}, e \in ExpiryTimes :
            WithLock(store_credential(c, "s1", e))
    \/ \E c \in {<<"registration", "token">>, <<"system", "device_id">>} :
            WithLock(get_credential(c))
    \/ WithLock(cleanup_expired_credentials)
    \/ AdvanceClock

ExpirySpec == StoreInit /\ [][ExpiryNext]_vars

\* The agent's credentials are set up, read, swept and set up again
SetupNext ==
    \/ WithLock(initialize)
    \/ close
    \/ \E n \in Draws : WithLock(initialize_agent_credentials(n))
    \/ \E e \in ExpiryTimes : WithLock(store_credential(<<"registration", "token">>, "s1", e))
    \/ \E c \in CredKeys : WithLock(get_credential(c))
    \/ WithLock(cleanup_expired_credentials)
    \/ AdvanceClock

SetupSpec == StoreInit /\ [][SetupNext]_vars

CredSpec == StoreInit /\ [][CredNext]_vars

\* Every kind of operation, as the agent's tasks call them
OpsNext ==
    \/ WithLock(initialize)
    \/ close
    \/ \E v \in {PyList, PySet} : WithLock(set_config("k1", v, TRUE))
    \/ WithLock(get_config("k1", PyNone))
    \/ WithLock(delete_config("k1"))
    \/ \E c \in TokenKeys : WithLock(store_credential(c, "s1", NULL))
    \/ \E c \in TokenKeys : WithLock(get_credential(c))
    \/ WithLock(list_credentials)
    \/ WithLock(cleanup_expired_credentials)
    \/ \E st \in Stores : WithLock(store_entry(st[1], st[2], st[3], PyDictStr, NULL))
    \/ WithLock(get_metrics(None, NULL, 1000))
    \/ WithLock(get_task_logs(None, NULL, 1000))
    \/ WithLock(cleanup_old_data)

OpsSpec == StoreInit /\ [][OpsNext]_vars

\* The retention sweep, on day 100
SweepInit ==
    /\ settings = [address |-> <<"h">>, port |-> <<"8">>, key |-> "k1"]
    /\ agents = << >>
    /\ tokens = {}
    /\ tokSeq = 1
    /\ logs = 0
    /\ now = 0
    /\ req = [w \in Workers |-> Idle]
    /\ issued = {}
    /\ conn = FALSE
    /\ agent_config = {}
    /\ config_backups = << >>
    /\ credentials = {}
    /\ clock \in {100}
    /\ ret = NoCall
    /\ written = [k \in Keys |-> Unset]
    /\ kept = [c \in CredKeys |-> NoCred]
    /\ tables = [t \in TableNames |-> << >>]
    /\ lock = FALSE
    /\ LinkConstructed(Far)
    /\ AgentConstructed({}, NoFile)
    /\ HubConstructed

SweepSpec == SweepInit /\ [][SweepNext]_vars

\* =================================================== CommunicationManager
\* Time counters stop at Far.
Later(t) == IF t < Far THEN t + 1 ELSE Far

\* start(): the flag, the HTTP session, and the manager task
start ==
    /\ mgr = "none"
    /\ running' = TRUE
    /\ session' = TRUE
    /\ mgr' = "top"
    /\ UNCHANGED <<connected, reconnecting, websocket, sock, reconnect_interval,
                   pending_commands, stopper, snd, timer, sinceEnd, sinceAttempt, ncmd,
                   returned>>
    /\ UNCHANGED <<first_sent, message_handlers, effect>>
    /\ UNCHANGED nonLinkVars

\* stop(), to its first await: the flag is cleared and, when self.websocket is
\* set, the socket is closed (a close handshake, unless it is closed already);
\* else the session is closed; else the call ends. The agent calls it once,
\* after its main loop (the only sender) has returned.
stop_begin ==
    /\ mgr # "none" /\ stopper = "idle"
    /\ snd.pc \in {"idle", "done"}
    /\ running' = FALSE
    /\ sock' = IF websocket /\ sock = "open" THEN "closed_ok" ELSE sock
    /\ stopper' = IF websocket THEN "websocket_close"
                  ELSE IF session THEN "session_close" ELSE "done"
    /\ connected' = IF ~websocket /\ ~session THEN FALSE ELSE connected
    /\ UNCHANGED <<reconnecting, websocket, session, reconnect_interval, pending_commands,
                   mgr, snd, timer, sinceEnd, sinceAttempt, ncmd, returned>>
    /\ UNCHANGED <<first_sent, message_handlers, effect>>
    /\ UNCHANGED nonLinkVars

\* stop(), after websocket.close(): self.websocket = None, then the session
stop_websocket_closed ==
    /\ stopper = "websocket_close"
    /\ websocket' = FALSE
    /\ stopper' = IF session THEN "session_close" ELSE "done"
    /\ connected' = IF ~session THEN FALSE ELSE connected
    /\ UNCHANGED <<running, reconnecting, sock, session, reconnect_interval,
                   pending_commands, mgr, snd, timer, sinceEnd, sinceAttempt, ncmd,
                   returned>>
    /\ UNCHANGED <<first_sent, message_handlers, effect>>
    /\ UNCHANGED nonLinkVars

\* stop(), after session.close(): self.session = None, self.connected = False
stop_session_closed ==
    /\ stopper = "session_close"
    /\ session' = FALSE
    /\ connected' = FALSE
    /\ stopper' = "done"
    /\ UNCHANGED <<running, reconnecting, websocket, sock, reconnect_interval,
                   pending_commands, mgr, snd, timer, sinceEnd, sinceAttempt, ncmd,
                   returned>>
    /\ UNCHANGED <<first_sent, message_handlers, effect>>
    /\ UNCHANGED nonLinkVars

\* The end of the loop body: if not self.connected and self.running, sleep
\* reconnect_interval; then the top of the loop. c is self.connected there.
Backoff(c) ==
    /\ mgr' = IF ~c /\ running THEN "sleeping" ELSE "top"
    /\ timer' = IF ~c /\ running THEN reconnect_interval ELSE 0

\* _websocket_manager at the top of its loop, to its next await: it ends when
\* the flag is cleared; it starts a connect; it listens on the socket; or it
\* goes to the end of the body.
websocket_manager ==
    /\ mgr = "top"
    /\ IF ~running
       THEN /\ mgr' = "exited"
            /\ UNCHANGED <<reconnecting, timer, sinceAttempt>>
       ELSE IF ~connected /\ ~reconnecting
       THEN /\ reconnecting' = TRUE
            /\ mgr' = "connecting"
            /\ sinceAttempt' = 0
            /\ UNCHANGED timer
       ELSE IF connected /\ websocket
       THEN /\ mgr' = "receiving"
            /\ UNCHANGED <<reconnecting, timer, sinceAttempt>>
       ELSE /\ Backoff(connected)
            /\ UNCHANGED <<reconnecting, sinceAttempt>>
    /\ UNCHANGED <<running, connected, websocket, sock, session, reconnect_interval,
                   pending_commands, stopper, snd, sinceEnd, ncmd, returned>>
    /\ UNCHANGED <<first_sent, message_handlers, effect>>
    /\ UNCHANGED nonLinkVars

\* _connect_websocket after websockets.connect: the socket is there and the
\* manager sends "agent_connected", or the connect raised and the manager is
\* at the end of the loop body.
\* Variant: _connect_websocket yields between `self.connected = True` and
\* the send of the identification frame, which then has handed nothing yet.
NothingSentOnConnect == "none"

\* What _connect_websocket has handed to the new socket when it first
\* suspends: there is no await between `self.connected = True` and
\* websocket.send(agent_connected).
SentOnConnect == "agent_connected"

\* The first frame handed to the socket, after this one is handed to it
FirstSent(frame) == IF first_sent = "none" THEN frame ELSE first_sent

connect_websocket(ok) ==
    /\ mgr = "connecting"
    /\ reconnecting' = FALSE
    /\ IF ok
       THEN /\ websocket' = TRUE
            /\ sock' = "open"
            /\ connected' = TRUE
            /\ mgr' = "hello"
            /\ first_sent' = SentOnConnect
            /\ UNCHANGED <<timer, sinceEnd>>
       ELSE /\ websocket' = FALSE
            /\ connected' = FALSE
            /\ sinceEnd' = 0
            /\ Backoff(FALSE)
            /\ UNCHANGED <<sock, first_sent>>
    /\ UNCHANGED <<running, session, reconnect_interval, pending_commands, stopper, snd,
                   sinceAttempt, ncmd, returned>>
    /\ UNCHANGED <<message_handlers, effect>>
    /\ UNCHANGED nonLinkVars

\* _send_websocket_message("agent_connected") is over, sent or not: the
\* manager listens on the socket, or is at the end of the loop body.
connect_websocket_hello ==
    /\ mgr = "hello"
    /\ IF connected /\ websocket
       THEN mgr' = "receiving" /\ UNCHANGED timer
       ELSE Backoff(connected)
    /\ first_sent' = FirstSent("agent_connected")
    /\ UNCHANGED <<running, connected, reconnecting, websocket, sock, session,
                   reconnect_interval, pending_commands, stopper, snd, sinceEnd,
                   sinceAttempt, ncmd, returned>>
    /\ UNCHANGED <<message_handlers, effect>>
    /\ UNCHANGED nonLinkVars

\* Variant: a registered handler is looked for before the built-in types.
DispatchHandlersFirst(type) ==
    IF type \in message_handlers THEN "handler"
    ELSE IF type = "command" THEN "queued"
    ELSE IF type = "ping" THEN "pong"
    ELSE "dropped"

\* The if / elif chain of _handle_websocket_message
Dispatch(type) ==
    IF type = "command" THEN "queued"
    ELSE IF type = "ping" THEN "pong"
    ELSE IF type \in message_handlers THEN "handler"
    ELSE "dropped"

\* The server sends a frame; _handle_websocket_message queues a command,
\* answers a ping (the pong is handed to the socket when the manager is
\* connected), calls the handler registered for any other type, and drops
\* the frame when there is none.
handle_websocket_message(type) ==
    /\ mgr = "receiving" /\ sock = "open"
    /\ IF Dispatch(type) = "queued"
       THEN /\ ncmd < MaxCommands
            /\ ncmd' = ncmd + 1
            /\ pending_commands' = Append(pending_commands, ncmd + 1)
       ELSE UNCHANGED <<ncmd, pending_commands>>
    /\ first_sent' = IF Dispatch(type) = "pong" /\ websocket /\ connected
                     THEN FirstSent("pong") ELSE first_sent
    /\ effect' = [type |-> type, did |-> Dispatch(type),
                  sent |-> Dispatch(type) = "pong" /\ websocket /\ connected,
                  invoked |-> IF Dispatch(type) = "handler" THEN <<type>> ELSE << >>]
    /\ UNCHANGED <<running, connected, reconnecting, websocket, sock, session,
                   reconnect_interval, mgr, stopper, snd, timer, sinceEnd, sinceAttempt,
                   returned>>
    /\ UNCHANGED message_handlers
    /\ UNCHANGED nonLinkVars

\* register_message_handler(message_type, handler)
register_message_handler(type) ==
    /\ message_handlers' = message_handlers \cup {type}
    /\ UNCHANGED <<running, connected, reconnecting, websocket, sock, session,
                   reconnect_interval, pending_commands, mgr, stopper, snd, timer,
                   sinceEnd, sinceAttempt, ncmd, returned, first_sent, effect>>
    /\ UNCHANGED nonLinkVars

\* unregister_message_handler(message_type)
unregister_message_handler(type) ==
    /\ message_handlers' = message_handlers \ {type}
    /\ UNCHANGED <<running, connected, reconnecting, websocket, sock, session,
                   reconnect_interval, pending_commands, mgr, stopper, snd, timer,
                   sinceEnd, sinceAttempt, ncmd, returned, first_sent, effect>>
    /\ UNCHANGED nonLinkVars
    /\ UNCHANGED nonLinkVars

\* The server or the network ends the session: a close handshake (code 1000 or
\* 1001), or an error.
Closes == {"closed_ok", "closed_err"}
server_close(how) ==
    /\ sock = "open"
    /\ sock' = how
    /\ sinceEnd' = 0
    /\ UNCHANGED <<running, connected, reconnecting, websocket, session,
                   reconnect_interval, pending_commands, mgr, stopper, snd, timer,
                   sinceAttempt, ncmd, returned>>
    /\ UNCHANGED <<first_sent, message_handlers, effect>>
    /\ UNCHANGED nonLinkVars

\* async for message in self.websocket, on a closed socket: after an error the
\* iteration raises ConnectionClosed and the handler clears connected and
\* websocket; after a close handshake the iteration just ends. Then the end of
\* the loop body.
session_end ==
    /\ mgr = "receiving" /\ sock \in Closes
    /\ IF sock = "closed_err"
       THEN /\ connected' = FALSE
            /\ websocket' = FALSE
            /\ Backoff(FALSE)
       ELSE /\ UNCHANGED <<connected, websocket>>
            /\ Backoff(connected)
    /\ UNCHANGED <<running, reconnecting, sock, session, reconnect_interval,
                   pending_commands, stopper, snd, sinceEnd, sinceAttempt, ncmd, returned>>
    /\ UNCHANGED <<first_sent, message_handlers, effect>>
    /\ UNCHANGED nonLinkVars

\* asyncio.sleep(self.reconnect_interval) is over
wake_up ==
    /\ mgr = "sleeping" /\ timer = 0
    /\ mgr' = "top"
    /\ UNCHANGED <<running, connected, reconnecting, websocket, sock, session,
                   reconnect_interval, pending_commands, stopper, snd, timer, sinceEnd,
                   sinceAttempt, ncmd, returned>>
    /\ UNCHANGED <<first_sent, message_handlers, effect>>
    /\ UNCHANGED nonLinkVars

\* One tick of the clock
LinkTick ==
    /\ timer' = IF timer > 0 THEN timer - 1 ELSE 0
    /\ sinceEnd' = Later(sinceEnd)
    /\ sinceAttempt' = Later(sinceAttempt)
    /\ UNCHANGED <<running, connected, reconnecting, websocket, sock, session,
                   reconnect_interval, pending_commands, mgr, stopper, snd, ncmd, returned>>
    /\ UNCHANGED <<first_sent, message_handlers, effect>>
    /\ UNCHANGED nonLinkVars

\* Variant: the queue is returned and not cleared.
PeekCommands == pending_commands

\* self.pending_commands.clear()
Cleared == << >>

\* get_pending_commands(): copy, clear, return the copy
get_pending_commands ==
    /\ returned' = returned \o pending_commands
    /\ pending_commands' = Cleared
    /\ UNCHANGED <<running, connected, reconnecting, websocket, sock, session,
                   reconnect_interval, mgr, stopper, snd, timer, sinceEnd, sinceAttempt,
                   ncmd>>
    /\ UNCHANGED <<first_sent, message_handlers, effect>>
    /\ UNCHANGED nonLinkVars

\* A send that drops the message when the WebSocket send failed, with no
\* HTTP fallback (a variant of HttpFallback)
NoFallback(call) == [call EXCEPT !.pc = "done"]

\* _send_http_response / _send_http_status, to the POST: nothing is sent
\* without a session
HttpFallback(call) ==
    IF ~session THEN [call EXCEPT !.pc = "done"]
    ELSE [call EXCEPT !.pc = "http", !.posts = @ + 1]

\* send_response / send_status_update, to the first await:
\* _send_websocket_message returns False at once when there is no socket or
\* the manager is not connected, else it sends. The agent's main loop is the
\* only caller, and it runs after start() has returned and before stop() is
\* called.
SendKinds == {"send_response", "send_status_update"}
send(kind) ==
    /\ snd.pc \in {"idle", "done"}
    /\ mgr # "none" /\ stopper = "idle"
    /\ snd' = IF ~websocket \/ ~connected
              THEN HttpFallback([NoSend EXCEPT !.kind = kind, !.ws = "skipped"])
              ELSE [NoSend EXCEPT !.kind = kind, !.pc = "ws"]
    /\ first_sent' = IF ~websocket \/ ~connected THEN first_sent ELSE FirstSent(kind)
    /\ UNCHANGED <<running, connected, reconnecting, websocket, sock, session,
                   reconnect_interval, pending_commands, mgr, stopper, timer, sinceEnd,
                   sinceAttempt, ncmd, returned>>
    /\ UNCHANGED <<message_handlers, effect>>
    /\ UNCHANGED nonLinkVars

\* websocket.send is over: sent (only on an open socket), or it raised and
\* the HTTP fallback is taken
websocket_send(ok) ==
    /\ snd.pc = "ws"
    /\ ok => sock = "open"
    /\ snd' = IF ok THEN [snd EXCEPT !.pc = "done", !.ws = "ok"]
              ELSE HttpFallback([snd EXCEPT !.ws = "failed"])
    /\ UNCHANGED <<running, connected, reconnecting, websocket, sock, session,
                   reconnect_interval, pending_commands, mgr, stopper, timer, sinceEnd,
                   sinceAttempt, ncmd, returned>>
    /\ UNCHANGED <<first_sent, message_handlers, effect>>
    /\ UNCHANGED nonLinkVars

\* session.post is over, with a status or an exception; either is logged
http_post ==
    /\ snd.pc = "http"
    /\ snd' = [snd EXCEPT !.pc = "done"]
    /\ UNCHANGED <<running, connected, reconnecting, websocket, sock, session,
                   reconnect_interval, pending_commands, mgr, stopper, timer, sinceEnd,
                   sinceAttempt, ncmd, returned>>
    /\ UNCHANGED <<first_sent, message_handlers, effect>>
    /\ UNCHANGED nonLinkVars

\* The manager task's own steps, and the steps of a stop() under way
ManagerStep ==
    \/ websocket_manager
    \/ connect_websocket_hello
    \/ session_end
    \/ wake_up
ConnectStep == \E ok \in BOOLEAN : connect_websocket(ok)
StopStep == stop_websocket_closed \/ stop_session_closed

LinkInit ==
    /\ settings = [address |-> <<"h">>, port |-> <<"8">>, key |-> "k1"]
    /\ agents = << >>
    /\ tokens = {}
    /\ tokSeq = 1
    /\ logs = 0
    /\ now = 0
    /\ req = [w \in Workers |-> Idle]
    /\ issued = {}
    /\ StoreConstructed
    /\ \E interval \in Intervals : LinkConstructed(interval)
    /\ AgentConstructed({}, NoFile)
    /\ HubConstructed

\* The connection: start, stop, the manager task, the server, the clock
LinkNext ==
    \/ start
    \/ stop_begin
    \/ stop_websocket_closed
    \/ stop_session_closed
    \/ websocket_manager
    \/ \E ok \in BOOLEAN : connect_websocket(ok)
    \/ connect_websocket_hello
    \/ \E how \in Closes : server_close(how)
    \/ session_end
    \/ wake_up
    \/ LinkTick

\* The event loop runs every task that can run, a connect attempt ends (it
\* has a timeout), and time passes; the server and the callers owe nothing.
LinkSpec ==
    /\ LinkInit
    /\ [][LinkNext]_vars
    /\ WF_vars(ManagerStep)
    /\ WF_vars(ConnectStep)
    /\ WF_vars(StopStep)
    /\ WF_vars(LinkTick)

\* The command queue: frames arrive, the dispatcher drains
QueueNext ==
    \/ start
    \/ stop_begin
    \/ stop_websocket_closed
    \/ stop_session_closed
    \/ websocket_manager
    \/ connect_websocket(TRUE)
    \/ connect_websocket_hello
    \/ \E type \in Frames : handle_websocket_message(type)
    \/ \E how \in Closes : server_close(how)
    \/ session_end
    \/ wake_up
    \/ LinkTick
    \/ get_pending_commands

QueueSpec == LinkInit /\ [][QueueNext]_vars

\* The senders: responses and status updates while the connection comes and goes
SendNext ==
    \/ start
    \/ stop_begin
    \/ stop_websocket_closed
    \/ stop_session_closed
    \/ websocket_manager
    \/ \E ok \in BOOLEAN : connect_websocket(ok)
    \/ connect_websocket_hello
    \/ \E how \in Closes : server_close(how)
    \/ session_end
    \/ wake_up
    \/ LinkTick
    \/ \E kind \in SendKinds : send(kind)
    \/ \E ok \in BOOLEAN : websocket_send(ok)
    \/ http_post
    \/ handle_websocket_message("ping")

SendSpec == LinkInit /\ [][SendNext]_vars

\* The inbound frames of a manager whose callers register and unregister
\* handlers, and stop it.
FrameNext ==
    \/ start
    \/ stop_begin
    \/ stop_websocket_closed
    \/ stop_session_closed
    \/ websocket_manager
    \/ connect_websocket(TRUE)
    \/ connect_websocket_hello
    \/ \E type \in Frames : handle_websocket_message(type)
    \/ \E type \in Frames : register_message_handler(type)
    \/ \E type \in Frames : unregister_message_handler(type)

FrameSpec == LinkInit /\ [][FrameNext]_vars

\* ============================================================== NodeAgent
\* (node-agent/src/agent.py) run(): the components are initialized, the
\* registration is checked, the components are started, the main loop runs
\* until self.running is false, and the components are stopped. The store and
\* the manager appear here by what the agent does to them.

\* load_config_from_store: the three items are all in the secure store
load_config_from_store == Items \subseteq store_cfg

\* self.config after load_config_from_store or, failing that, load_config
Loaded ==
    IF load_config_from_store THEN Items
    ELSE IF file_cfg = NoFile THEN {} ELSE file_cfg

\* initialize_components: the store is opened, the configuration is loaded
\* from the store or else from agent.json (and then migrated to the store);
\* ValueError when there is none or management_url or api_key is missing,
\* which run() turns into its return value 1 after stop_components().
initialize_components ==
    /\ agent_pc = "run"
    /\ data_store' = "open"
    /\ config' = Loaded
    /\ store_cfg' = IF load_config_from_store THEN store_cfg ELSE store_cfg \cup Loaded
    /\ IF {"management_url", "api_key"} \subseteq Loaded
       THEN comms' = "constructed" /\ agent_pc' = "initialized"
       ELSE comms' = comms /\ agent_pc' = "shutdown_failed"
    /\ UNCHANGED <<agent_running, file_cfg, exit_code, arrived, batch, dispatched,
                   task_logs, responses, critical, nap, nframe>>
    /\ UNCHANGED nonAgentVars

\* Variant: the device id is not asked for.
is_registered_by_url_and_key == {"management_url", "api_key"} \subseteq config

\* is_registered
is_registered == Items \subseteq config

\* run(), from is_registered() to the call of main_loop(): an agent that is
\* not registered returns 1 (after stop_components()); else the components
\* are started and self.running is set.
start_components ==
    /\ agent_pc = "initialized"
    /\ IF is_registered
       THEN comms' = "started" /\ agent_running' = TRUE /\ agent_pc' = "top"
       ELSE comms' = comms /\ agent_running' = agent_running
            /\ agent_pc' = "shutdown_failed"
    /\ UNCHANGED <<store_cfg, file_cfg, config, data_store, exit_code, arrived, batch,
                   dispatched, task_logs, responses, critical, nap, nframe>>
    /\ UNCHANGED nonAgentVars

\* signal_handler (SIGTERM, SIGINT), at any time before run() has returned
signal_handler ==
    /\ agent_pc # "returned"
    /\ agent_running
    /\ agent_running' = FALSE
    /\ UNCHANGED <<agent_pc, store_cfg, file_cfg, config, comms, data_store, exit_code,
                   arrived, batch, dispatched, task_logs, responses, critical, nap,
                   nframe>>
    /\ UNCHANGED nonAgentVars

\* The server sends a command frame: _handle_websocket_message appends the
\* frame as it is, "type": "command" included, to pending_commands.
command_frame(id) ==
    /\ comms = "started"
    /\ nframe < MaxCommands
    /\ nframe' = nframe + 1
    /\ arrived' = Append(arrived, [n |-> nframe + 1, type |-> "command", id |-> id])
    /\ UNCHANGED <<agent_running, agent_pc, store_cfg, file_cfg, config, comms, data_store,
                   exit_code, batch, dispatched, task_logs, responses, critical, nap>>
    /\ UNCHANGED nonAgentVars

\* main_loop: `while self.running`, then get_pending_commands()
main_loop ==
    /\ agent_pc = "top"
    /\ IF agent_running
       THEN batch' = arrived /\ arrived' = << >> /\ agent_pc' = "commands"
       ELSE UNCHANGED <<arrived, batch>> /\ agent_pc' = "shutdown_ok"
    /\ UNCHANGED <<agent_running, store_cfg, file_cfg, config, comms, data_store, exit_code,
                   dispatched, task_logs, responses, critical, nap, nframe>>
    /\ UNCHANGED nonAgentVars

\* command.get("id", default): JSON null is None
Get(command, default) ==
    IF command.id = NoId THEN default
    ELSE IF command.id = "null" THEN None ELSE command.id

\* bool(v) of an id
Truthy(v) == v \notin {None, "0"}

\* sqlite3 binds the value to task_id TEXT NOT NULL: None fails the
\* constraint, a list is no SQL value
Bindable(v) == v \notin {None, "[1]"}

\* The result handle_command computes for a command type
Result(command_type) ==
    IF command_type \in {"status", "run_module", "get_metrics", "update_config"}
    THEN command_type
    ELSE "error: Unknown command type"

\* The seconds main_loop sleeps after an iteration, and after an iteration
\* that raised
TickSleep == 1
ErrorSleep == 5

\* handle_command(command), with what main_loop does when it raises. The
\* response is sent when the id is truthy; store_task_log re-raises what the
\* INSERT raises, so an id that sqlite3 cannot bind takes the call to the
\* except branch, which sends an error response and calls store_task_log
\* again; what that raises leaves handle_command and the `for` loop, and
\* main_loop stores a CRITICAL log row and sleeps.
handle_command ==
    /\ agent_pc = "commands"
    /\ batch # << >>
    /\ LET command == Head(batch)
           command_id == Get(command, None)
           answered == comms # "none" /\ Truthy(command_id)
           task_id == IF Truthy(command_id) THEN command_id ELSE "unknown"
           raised == ~Bindable(task_id)
           failed_id == Get(command, "unknown")
           escaped == raised /\ ~Bindable(failed_id)
       IN  /\ dispatched' = Append(dispatched, command)
           /\ responses' = responses
                \o (IF answered
                    THEN <<[id |-> command_id, body |-> Result(command.type)]>>
                    ELSE << >>)
                \o (IF raised /\ answered
                    THEN <<[id |-> command_id, body |-> "error"]>>
                    ELSE << >>)
           /\ task_logs' = task_logs
                \o (IF ~raised
                    THEN <<[task_id |-> task_id, status |-> "completed",
                            command |-> command, carries |-> Result(command.type)]>>
                    ELSE IF ~escaped
                    THEN <<[task_id |-> failed_id, status |-> "failed",
                            command |-> command, carries |-> "error"]>>
                    ELSE << >>)
           /\ IF escaped
              THEN /\ batch' = << >>
                   /\ critical' = critical + 1
                   /\ nap' = ErrorSleep
                   /\ agent_pc' = "sleeping"
              ELSE /\ batch' = Tail(batch)
                   /\ UNCHANGED <<critical, nap, agent_pc>>
    /\ UNCHANGED <<agent_running, store_cfg, file_cfg, config, comms, data_store, exit_code,
                   arrived, nframe>>
    /\ UNCHANGED nonAgentVars

\* main_loop after the commands: the metrics, the status update and the
\* health log (each keeps its own errors), then asyncio.sleep(1)
main_loop_sleep ==
    /\ agent_pc = "commands"
    /\ batch = << >>
    /\ nap' = TickSleep
    /\ agent_pc' = "sleeping"
    /\ UNCHANGED <<agent_running, store_cfg, file_cfg, config, comms, data_store, exit_code,
                   arrived, batch, dispatched, task_logs, responses, critical, nframe>>
    /\ UNCHANGED nonAgentVars

\* The sleep is over
main_loop_wake ==
    /\ agent_pc = "sleeping"
    /\ agent_pc' = "top"
    /\ UNCHANGED <<agent_running, store_cfg, file_cfg, config, comms, data_store, exit_code,
                   arrived, batch, dispatched, task_logs, responses, critical, nap, nframe>>
    /\ UNCHANGED nonAgentVars

\* run()'s finally: stop_components(), then the return value
stop_components ==
    /\ agent_pc \in {"shutdown_ok", "shutdown_failed"}
    /\ comms' = IF comms = "none" THEN "none" ELSE "stopped"
    /\ data_store' = IF data_store = "none" THEN "none" ELSE "closed"
    /\ exit_code' = IF agent_pc = "shutdown_ok" THEN <<0>> ELSE <<1>>
    /\ agent_pc' = "returned"
    /\ UNCHANGED <<agent_running, store_cfg, file_cfg, config, arrived, batch, dispatched,
                   task_logs, responses, critical, nap, nframe>>
    /\ UNCHANGED nonAgentVars

\* The steps of run() itself
RunStep ==
    \/ initialize_components
    \/ start_components
    \/ main_loop
    \/ handle_command
    \/ main_loop_sleep
    \/ main_loop_wake
    \/ stop_components

AgentInit ==
    /\ settings = [address |-> <<"h">>, port |-> <<"8">>, key |-> "k1"]
    /\ agents = << >>
    /\ tokens = {}
    /\ tokSeq = 1
    /\ logs = 0
    /\ now = 0
    /\ req = [w \in Workers |-> Idle]
    /\ issued = {}
    /\ StoreConstructed
    /\ LinkConstructed(Far)
    /\ \E in_store \in SUBSET Items, in_file \in {NoFile} \cup SUBSET Items :
            AgentConstructed(in_store, in_file)
    /\ HubConstructed

AgentNext ==
    \/ RunStep
    \/ signal_handler
    \/ \E id \in CommandIds : command_frame(id)

\* run() is one task of the event loop and takes its next step
AgentSpec == AgentInit /\ [][AgentNext]_vars /\ WF_vars(RunStep)

\* ------------------------------------------------- /ws/agents/{agent_id}
\* Variant: the cleanup removes the entry only when it is this handler's socket.
DeleteOwn(s, agent_id) ==
    [active_connections EXCEPT ![agent_id] = IF @ = s THEN 0 ELSE @]

\* if agent_id in active_connections: del active_connections[agent_id]
Delete(s, agent_id) ==
    [active_connections EXCEPT ![agent_id] = 0]

\* SELECT id, status FROM agents WHERE id = :agent_id; anything but an active
\* agent is logged and closed with 1008, an active one goes on to accept()
websocket_agent(s, agent_id) ==
    /\ sockets[s].pc = "none"
    /\ \A t \in 1..MaxSockets : t < s => sockets[t].pc # "none"
    /\ IF agent_id \notin DOMAIN agents \/ agents[agent_id].status # "active"
       THEN /\ ws_logs' = ws_logs + 1
            /\ sockets' = [sockets EXCEPT ![s] = [NoSocket EXCEPT !.pc = "done",
                                                     !.agent_id = agent_id]]
       ELSE /\ sockets' = [sockets EXCEPT ![s] = [NoSocket EXCEPT !.pc = "accepting",
                                                     !.agent_id = agent_id, !.open = TRUE]]
            /\ UNCHANGED ws_logs
    /\ UNCHANGED active_connections
    /\ UNCHANGED nonHubVars

\* accept() returned: active_connections[agent_id] = websocket, log, receive
accepted(s) ==
    /\ sockets[s].pc = "accepting"
    /\ active_connections' = [active_connections EXCEPT ![sockets[s].agent_id] = s]
    /\ ws_logs' = ws_logs + 1
    /\ sockets' = [sockets EXCEPT ![s].pc = "receiving"]
    /\ UNCHANGED nonHubVars

FrameTypes == {"status_update", "task_complete", "other"}

\* receive_json() returned a message: status_update touches the agent's
\* last_seen and is logged, task_complete and any other type are logged
receive(s, type) ==
    /\ sockets[s].pc = "receiving"
    /\ sockets[s].open
    /\ sockets[s].received < MaxFrames
    /\ ws_logs' = ws_logs + 1
    /\ sockets' = [sockets EXCEPT ![s].received = @ + 1]
    /\ UNCHANGED active_connections
    /\ UNCHANGED nonHubVars

\* the agent closes its end or the connection drops
peer_gone(s) ==
    /\ sockets[s].pc = "receiving"
    /\ sockets[s].open
    /\ sockets' = [sockets EXCEPT ![s].open = FALSE]
    /\ UNCHANGED <<active_connections, ws_logs>>
    /\ UNCHANGED nonHubVars

\* except WebSocketDisconnect: log, forget the agent's connection
on_disconnect(s) ==
    /\ sockets[s].pc = "receiving"
    /\ ~sockets[s].open
    /\ ws_logs' = ws_logs + 1
    /\ active_connections' = Delete(s, sockets[s].agent_id)
    /\ sockets' = [sockets EXCEPT ![s].pc = "done"]
    /\ UNCHANGED nonHubVars

\* except Exception (a frame that is not JSON): log, forget the agent's
\* connection, close with 1011
on_error(s) ==
    /\ sockets[s].pc = "receiving"
    /\ sockets[s].open
    /\ ws_logs' = ws_logs + 1
    /\ active_connections' = Delete(s, sockets[s].agent_id)
    /\ sockets' = [sockets EXCEPT ![s].pc = "done", ![s].open = FALSE]
    /\ UNCHANGED nonHubVars

\* The server: agents are registered and activated over HTTP and connect
HubNext ==
    \/ \E w \in Workers, name \in Names : PreRegisterStart(w, name)
    \/ \E w \in Workers : PreRegisterInsert(w)
    \/ \E w \in Workers : PreRegisterToken(w)
    \/ \E w \in Workers, token \in IssuedTokens : ValidateStart(w, token)
    \/ \E w \in Workers : ValidateWrite(w)
    \/ \E s \in 1..MaxSockets, agent_id \in 1..MaxAgents : websocket_agent(s, agent_id)
    \/ \E s \in 1..MaxSockets : accepted(s)
    \/ \E s \in 1..MaxSockets, type \in FrameTypes : receive(s, type)
    \/ \E s \in 1..MaxSockets : peer_gone(s)
    \/ \E s \in 1..MaxSockets : on_disconnect(s)
    \/ \E s \in 1..MaxSockets : on_error(s)

HubSpec == Init /\ [][HubNext]_vars

\* =================================================================== claims
\* ------------------------------------------------- TokenBroker (under Spec)
InFlight(w) == req[w].pc \notin {"idle", "done"}
\* Worker w is the only one handling a request.
Alone(w) == \A v \in Workers \ {w} : ~InFlight(v)
RowsOf(token) == {r \in tokens : r.token = token}
Succeeded(w) == req[w].op = "validate" /\ req[w].pc = "done" /\ req[w].result = "ok"
Failed(w) == req[w].op = "validate" /\ req[w].pc = "done" /\ req[w].result # "ok"

\* C1: for any token T returned by pre_register, in validate calls made one
\* after the other before T expires, the first validate(T) succeeds and
\* deletes the token row, and every later validate(T) fails with 'Token is
\* expired or invalid' and leaves the agents unchanged.
C1_SingleUse ==
    [][\A w \in Workers :
        /\ \A t \in IssuedTokens :
            (ValidateStart(w, t) /\ Alone(w)) =>
                IF \E r \in RowsOf(t) : ~Expired(r)
                THEN req'[w].pc = "v_write"
                ELSE RowsOf(t) = {} =>
                        /\ Failed(w)'
                        /\ req'[w].result = "Token is expired or invalid"
                        /\ agents' = agents
        /\ (ValidateWrite(w) /\ Alone(w) /\ RowsOf(req[w].token) # {}) =>
                /\ Succeeded(w)'
                /\ RowsOf(req[w].token)' = {}
      ]_vars

\* C2: two validate requests carrying the same unexpired token, interleaved
\* in any way: at most one returns success, and the agent's registered_at is
\* stamped at most once.
C2_AtomicRedemption ==
    [][/\ \A w1, w2 \in Workers :
            (w1 # w2 /\ Succeeded(w1)' /\ Succeeded(w2)') => req'[w1].token # req'[w2].token
       /\ \A i \in DOMAIN agents :
            agents[i].registered_at # NULL => agents'[i].registered_at = agents[i].registered_at
      ]_vars

\* C3: every agent is created pending; the only status change is pending to
\* active, made by a validate that succeeds; an active agent never becomes
\* pending again (and no agent row disappears).
C3_StatusMonotonic ==
    [][/\ Len(agents') >= Len(agents)
       /\ \A i \in DOMAIN agents' :
            IF i \in DOMAIN agents
            THEN /\ agents[i].status = "active" => agents'[i].status = "active"
                 /\ agents'[i].status # agents[i].status =>
                        /\ agents[i].status = "pending" /\ agents'[i].status = "active"
                        /\ \E w \in Workers : req[w].pc = "v_write" /\ Succeeded(w)'
                                                /\ req[w].tok_agent = Str(i)
            ELSE /\ agents'[i].status = "pending" /\ agents'[i].registered_at = NULL
                 /\ \E w \in Workers : req[w].pc = "p_insert" /\ req'[w].agent_id = i
      ]_vars

\* C3 witness: a pre-registered agent was activated by a successful validate
\* of its token.
C3_Witness ==
    \E w \in Workers, i \in DOMAIN agents :
        /\ Succeeded(w) /\ Parts(req[w].token)[1] = Str(i)
        /\ agents[i].status = "active" /\ agents[i].registered_at # NULL

\* C4: at most one agent row exists per name, also after concurrent
\* pre_register calls with the same name.
C4_NamesUnique ==
    \A i, j \in DOMAIN agents : agents[i].name = agents[j].name => i = j

\* C5: a token whose expires_at has passed is never redeemable: validate fails
\* with 'Token is expired or invalid', the agent stays pending with
\* registered_at unset, and the token row is left in place.
C5_ExpiredNeverRedeemable ==
    [][/\ \A r \in tokens : Expired(r) =>
            /\ agents[r.agent_id].status = "pending"
            /\ agents[r.agent_id].registered_at = NULL
       /\ \A w \in Workers, t \in IssuedTokens :
            (ValidateStart(w, t) /\ \E r \in RowsOf(t) : Expired(r)) =>
                /\ Failed(w)'
                /\ req'[w].result = "Token is expired or invalid"
                /\ agents' = agents
                /\ tokens' = tokens
      ]_vars

\* The three conditions of C6.
Redeemed(token) == token \in IssuedTokens /\ RowsOf(token) = {}
HasExpired(token) == \E r \in RowsOf(token) : Expired(r)
NeverStored(token) == token \in ForgedTokens

\* C6: validate fails uniformly: a token that was already redeemed, one that
\* has expired and a decryptable one for which no row was ever stored are all
\* refused with the same error, 'Token is expired or invalid', and nothing is
\* written.
C6_UniformFailure ==
    [][\A w \in Workers, t \in Presentable :
        (ValidateStart(w, t) /\ (Redeemed(t) \/ HasExpired(t) \/ NeverStored(t))) =>
            /\ Failed(w)'
            /\ req'[w].result = "Token is expired or invalid"
            /\ agents' = agents /\ tokens' = tokens
      ]_vars

\* C7: a successful validate(T) returns the address and port that the
\* pre_register call that issued T read from the settings, whatever the
\* settings are now.
C7_ConnectionDetailsAtIssuance ==
    \A w \in Workers : Succeeded(w) =>
        \E i \in issued : /\ i.token = req[w].token
                          /\ req[w].address = i.address
                          /\ req[w].port = i.port

\* C7 witness: a validate succeeded after the settings had been changed.
C7_Witness ==
    \E w \in Workers : Succeeded(w) /\ <<settings.address, settings.port>> # <<req[w].address, req[w].port>>

\* C8: every pre_register and validate call, whether it succeeds or fails,
\* appends a record to the log sink before it returns.
C8_EveryCallAudited ==
    [][\A w \in Workers :
        (req'[w].pc = "done" /\ req'[w] # req[w]) => logs' > logs]_vars

\* C8 witness: a call that failed for a missing encryption key and a validate
\* call that failed have returned, and the log holds a record for each.
C8_Witness ==
    /\ logs >= 2
    /\ \E w \in Workers : req[w].pc = "done" /\ req[w].result = "Encryption key not configured"
    /\ \E w \in Workers : req[w].pc = "done" /\ req[w].op = "validate" /\ req[w].result # "ok"

\* -------------------------------------------- SecureDataStore (under StoreSpec)
\* The Python values that are JSON values: None, lists, dicts with str keys.
JsonTyped(value) ==
    /\ value.type \in {"NoneType", "list", "dict"}
    /\ \A i \in DOMAIN value.keys : value.keys[i].type = "str"

\* C9 as stated: after set_config(k, v) returned True, get_config(k) returns a
\* value equal to v in every later state until the next set_config(k) or
\* delete_config(k), whatever other store operations run in between.
C9_ConfigRoundTrip ==
    \A k \in Keys : written[k] # Unset => ConfigValue(k, PyNone) = written[k]

\* C9 amended: the same for a value v made of JSON types (None, lists, dicts
\* with string keys), encrypted or not, in every later state in which the
\* store is open.
C9_ConfigRoundTripJson ==
    \A k \in Keys :
        (conn /\ written[k] # Unset /\ JsonTyped(written[k])) =>
            ConfigValue(k, PyNone) = written[k]

\* C9 witness: get_config returned the dict that was set under a key, stored
\* encrypted, after the other key was set and then overwritten by a list.
C9_Witness ==
    /\ ret.op = "get_config"
    /\ written[ret.key] = PyDictStr
    /\ ret.value = PyDictStr
    /\ \E r \in ConfigRows(ret.key) : r.encrypted
    /\ \E k \in Keys \ {ret.key} : written[k] = PyList
    /\ \E i \in DOMAIN config_backups : config_backups[i].key # ret.key

\* C10: get_credential on a credential whose expires_at is in the past returns
\* nothing and deletes the row, so that list_credentials no longer lists it;
\* on a credential whose expires_at is in the future or unset it returns the
\* stored value.
C10_ExpiredNeverReturned ==
    [][\A c \in CredKeys :
        (get_credential(c) /\ conn /\ CredRows(c) # {}) =>
            IF kept[c].expires_at # NULL /\ kept[c].expires_at[1] < clock
            THEN /\ ret'.secret = None
                 /\ CredRows(c)' = {}
                 /\ c \notin CredentialList'
            ELSE ret'.secret = kept[c].value
      ]_vars

\* ------------------------------------ SecureDataStore reads (under QuerySpec)
\* The data column of the row is still the ciphertext that was written.
Intact(row) == row.data = encrypt_data(row.stored)
\* The entries of the intact rows of a table, as they were written
ValidEntries(table) ==
    LET good == SelectSeq(Visible(table), Intact)
    IN  [i \in DOMAIN good |-> [timestamp |-> good[i].timestamp, kind |-> good[i].kind,
                                data |-> json_loads(good[i].stored)]]
\* The value column of the key's row is no longer what set_config wrote.
ConfigDamaged(key) ==
    \E row \in ConfigRows(key) :
        row.value # (IF row.encrypted THEN encrypt_data(json_dumps(written[key]))
                     ELSE Plain(json_dumps(written[key])))
\* A read of the table returned only entries of intact rows, and all of them,
\* newest first, when the limit does not cut the selection.
ReadIsolates(table, limit) ==
    /\ \A i \in DOMAIN ret'.rows :
          \E j \in DOMAIN ValidEntries(table) : ret'.rows[i] = ValidEntries(table)[j]
    /\ limit >= Len(Visible(table)) => ret'.rows \in NewestFirst(ValidEntries(table))

InsideWindow(table, days) ==
    SelectSeq(Visible(table), LAMBDA r : r.timestamp >= clock - days)

\* C12: one run of the retention sweep removes from each of the five
\* log-style tables (metrics 30 days, logs 7, task_logs 90, module_data 30,
\* communication logs 7) every row older than the table's window and keeps
\* every row inside it.
C12_SweepRemovesOldRows ==
    [][conn /\ cleanup_old_data =>
          /\ Visible("metrics")' = InsideWindow("metrics", 30)
          /\ Visible("logs")' = InsideWindow("logs", 7)
          /\ Visible("task_logs")' = InsideWindow("task_logs", 90)
          /\ Visible("module_data")' = InsideWindow("module_data", 30)
          /\ Visible("communication_logs")' = InsideWindow("communication_logs", 7)
      ]_vars

\* ----------------------------------------------- credentials (under CredSpec)
\* C13: credentials are uniquely addressed by (credential_type, identifier):
\* after any sequence of store_credential calls the table holds at most one
\* row for a key, and get_credential returns the value of the most recent
\* store_credential for the key, when that credential has not expired and has
\* not been deleted.
C13_CredentialsUnique ==
    [][/\ \A c \in CredKeys : Cardinality(CredRows(c))' <= 1
       /\ \A c \in CredKeys :
            (/\ conn /\ get_credential(c)
             /\ kept[c] # NoCred
             /\ kept[c].expires_at = NULL \/ clock <= kept[c].expires_at[1])
            => ret'.secret = kept[c].value
      ]_vars
\* The second value stored for a key is the one row of the key and the value
\* get_credential returned.
C13_Witness ==
    \E c \in CredKeys :
        /\ conn /\ ret.op = "get_credential" /\ ret.cred = c /\ ret.ok
        /\ kept[c].value = "s2" /\ ret.secret = "s2"
        /\ Cardinality(CredRows(c)) = 1

\* --------------------------------------- config audit trail (under StoreSpec)
\* The step appended one config_backups row for the key, holding the value
\* column the key's row had before the step, and changed no other backup row.
BackedUp(key, action) ==
    /\ Len(config_backups') = Len(config_backups) + 1
    /\ SubSeq(config_backups', 1, Len(config_backups)) = config_backups
    /\ LET backup == config_backups'[Len(config_backups')]
       IN  /\ backup.key = key /\ backup.action = action
           /\ \A row \in ConfigRows(key) :
                 backup.value = row.value /\ backup.encrypted = row.encrypted

\* C14: every set_config that replaces the entry of a key that already exists
\* and every delete_config that removes an existing key appends exactly one
\* config_backups row holding the prior stored value before the entry is
\* replaced or removed; set_config of a new key and delete_config of an absent
\* key append none. A call that returns False (store closed, value that
\* json.dumps rejects) replaces and removes nothing and appends none.
C14_AuditTrailOfWrites ==
    [][/\ \A k \in Keys, v \in PyValues, e \in BOOLEAN :
            ret'.op = "set_config" /\ ret'.key = k /\ set_config(k, v, e) =>
                IF ret'.ok
                THEN /\ IF ConfigRows(k) # {} THEN BackedUp(k, "update")
                        ELSE config_backups' = config_backups
                     /\ \A row \in ConfigRows(k)' : row.checksum = calculate_checksum(json_dumps(v))
                ELSE config_backups' = config_backups /\ agent_config' = agent_config
       /\ \A k \in Keys :
            ret'.op = "delete_config" /\ ret'.key = k /\ delete_config(k) =>
                IF ret'.ok
                THEN ConfigRows(k) # {} /\ BackedUp(k, "delete") /\ ConfigRows(k)' = {}
                ELSE config_backups' = config_backups /\ agent_config' = agent_config
      ]_vars
\* A set_config replaced the value of a key, and the backup row holds the
\* value it replaced.
C14_Witness ==
    /\ conn /\ ret.op = "set_config" /\ ret.ok
    /\ Len(config_backups) = 1
    /\ config_backups[1].key = ret.key /\ config_backups[1].action = "update"
    /\ \E row \in ConfigRows(ret.key) : row.value # config_backups[1].value

AttemptStarts == websocket_manager /\ mgr' = "connecting"

\* C16: while the manager is running, every end of the WebSocket session, by
\* a transport error or by a normal close from the server, moves the manager
\* out of Connected (connected false, socket dropped), and after the backoff
\* wait a new connect attempt is made; the manager never stays Connected on a
\* closed socket.
C16_SessionEndReconnects ==
    /\ [][running /\ session_end => ~connected' /\ ~websocket']_vars
    /\ (running /\ sock \in Closes) ~> (mgr = "connecting" \/ ~running)
    /\ []<>~(running /\ connected /\ websocket /\ sock \in Closes)

\* C17: after a WebSocket close or a failed connect no new attempt starts
\* before reconnect_interval has elapsed, and then one attempt is made;
\* consecutive attempts are never closer than reconnect_interval; the interval
\* never changes.
C17_ReconnectCadence ==
    /\ [][AttemptStarts => /\ sinceEnd >= reconnect_interval
                           /\ sinceAttempt >= reconnect_interval]_vars
    /\ [][reconnect_interval' = reconnect_interval]_vars
    /\ (running /\ mgr = "sleeping") ~> (mgr = "connecting" \/ ~running)
    /\ (running /\ sock \in Closes) ~> (mgr = "connecting" \/ ~running)

\* C20: after stop() the supervising loop eventually exits and starts no
\* further connect attempt, whether stop() arrives during the backoff wait,
\* during a blocking receive, or while a connect attempt is in flight.
C20_StopEndsLoop ==
    /\ (stopper # "idle") ~> (mgr = "exited")
    /\ [][stopper # "idle" => ~AttemptStarts]_vars

\* ------------------------------------ the command queue (under QueueSpec)
\* C18: get_pending_commands drains atomically: every received command frame
\* is returned by exactly one call, in arrival order, and the queue holds no
\* command that a call has already returned. (The commands returned so far
\* followed by the queue are the commands received, each once, in order.)
C18_DrainsAtomically == returned \o pending_commands = [i \in 1..ncmd |-> i]
\* The first command was returned by a call; the second arrived later and is
\* in the queue.
C18_Witness == returned = <<1>> /\ pending_commands = <<2>>

\* ------------------------------------------- the senders (under SendSpec)
\* The WebSocket send of the call did not deliver: it raised, or there was no
\* connection to send on.
WsFailed(call) == call.ws \in {"skipped", "failed"}

\* C19: send_response and send_status_update try the WebSocket send
\* first; the HTTP POST is attempted if and only if that send failed, and at
\* most once; when HTTP also fails the message is dropped.
C19_HttpIffWsFailed ==
    /\ snd.posts <= 1
    /\ snd.posts = 1 => WsFailed(snd)
    /\ snd.pc = "done" /\ WsFailed(snd) => snd.posts = 1

\* The WebSocket send raised and the message went out by one HTTP POST.
C19_Witness == snd.pc = "done" /\ snd.ws = "failed" /\ snd.posts = 1

\* ------------------------------------------- NodeAgent (under AgentSpec)
\* The task_logs rows written for a command
LogsOf(command) == SelectSeq(task_logs, LAMBDA row : row.command = command)

\* C21: every command dispatched by handle_command leads to a task_log record
\* appended after execution: status 'completed' carrying the result when the
\* handler returned, or status 'failed' carrying the error when it raised; no
\* command is processed without a task_log record.
C21_EveryCommandLogged ==
    \A i \in DOMAIN dispatched :
        /\ Len(LogsOf(dispatched[i])) = 1
        /\ LET row == LogsOf(dispatched[i])[1]
           IN  \/ row.status = "completed" /\ row.carries = Result(dispatched[i].type)
               \/ row.status = "failed" /\ row.carries = "error"

\* The command carries an id
HasId(command) == command.id \notin {NoId, "null"}

\* C22: a result, success or error, is sent back through the link manager if
\* and only if the originating command carried an id: a command with an id
\* always gets send_response called for it, and a command without an id
\* never does.
C22_ResponseIffId ==
    [][handle_command =>
          (HasId(Head(batch)) <=> Len(responses') > Len(responses))]_vars

\* Handling the command raises: the first store_task_log call raises
Raises(command) ==
    ~Bindable(IF Truthy(Get(command, None)) THEN Get(command, None) ELSE "unknown")

\* Where run() is while main_loop runs
LoopPcs == {"top", "commands", "sleeping"}

\* C23: an exception raised while handling one command is converted into an
\* error response plus a task_log entry with status 'failed'; it never
\* terminates the main loop, which goes on to later ticks and later commands.
C23_HandlerErrorsContained ==
    [][handle_command /\ Raises(Head(batch)) =>
          /\ Len(responses') > Len(responses)
          /\ responses'[Len(responses')].body = "error"
          /\ Len(task_logs') = Len(task_logs) + 1
          /\ task_logs'[Len(task_logs')].status = "failed"
          /\ task_logs'[Len(task_logs')].command = Head(batch)
          /\ batch' = Tail(batch)
          /\ agent_pc' \in LoopPcs]_vars

\* C24: an exception that escapes an iteration of the main loop does not end
\* the loop: it is logged as critical, the loop waits 5 s instead of 1 s, and
\* the next iteration runs (unless running has become false); the loop exits
\* only when running is false.
C24_LoopSurvivesErrors ==
    /\ [][agent_pc = "commands" /\ critical' # critical =>
            critical' = critical + 1 /\ nap' = 5 /\ agent_pc' = "sleeping"]_vars
    /\ [][handle_command /\ Raises(Head(batch)) /\ Len(task_logs') = Len(task_logs) =>
            critical' = critical + 1 /\ nap' = 5 /\ agent_pc' = "sleeping"]_vars
    /\ [][main_loop_sleep => nap' = 1]_vars
    /\ (agent_pc = "sleeping" /\ nap = 5) ~> (agent_pc \in {"commands", "shutdown_ok"})
    /\ [][(agent_pc \in LoopPcs) /\ (agent_pc' \notin LoopPcs) =>
            ~agent_running /\ agent_pc' = "shutdown_ok"]_vars
\* After an iteration that raised, a later iteration is handling a command.
C24_Witness == critical = 1 /\ nap = 5 /\ agent_pc = "commands" /\ batch # << >>

\* An item is in neither the secure store nor agent.json
Missing == \E item \in Items : item \notin store_cfg /\ item \notin file_cfg

\* C25: an unregistered agent never runs its main loop: if management_url,
\* api_key or the device id is missing from both the secure store and the
\* legacy config file, run() returns a failure code without starting the
\* communication manager or executing any loop iteration, and the components
\* are shut down.
C25_UnregisteredNeverRuns ==
    /\ [](Missing =>
            /\ comms # "started" /\ ~agent_running /\ agent_pc \notin LoopPcs
            /\ dispatched = << >> /\ nap = 0
            /\ agent_pc = "returned" =>
                  /\ exit_code = <<1>>
                  /\ comms \in {"none", "stopped"}
                  /\ data_store = "closed")
    /\ Missing ~> (agent_pc = "returned")
\* run() has returned 1 for an agent whose configuration has the URL and the
\* key but no device id; the manager it had constructed is stopped.
C25_Witness ==
    /\ Missing /\ agent_pc = "returned" /\ exit_code = <<1>>
    /\ config = {"management_url", "api_key"} /\ comms = "stopped"

\* ------------------------------------- credential checksum (under CredSpec)
\* C26: get_credential verifies the stored checksum of a non-expired
\* credential against the decrypted value, and on a mismatch it logs a
\* warning (whether or not it still returns the value).
C26_ChecksumMismatchWarned ==
    [][\A c \in CredKeys :
        (/\ conn /\ get_credential(c)
         /\ \E row \in CredRows(c) :
               /\ ~LazilyExpired(row)
               /\ row.checksum # calculate_checksum(decrypt_data(row.encrypted_value)))
        => ret'.warning # None
      ]_vars

\* ----------------------------------------- get_config (under QuerySpec)
\* C27: get_config never raises: it returns the caller's default when the key
\* is absent, when the checksum does not verify, when decryption fails, and
\* when the store has not been initialized or has been closed; in none of
\* these cases is stored state changed.
C27_GetConfigDefaults ==
    /\ [](\A key \in Keys, default \in Defaults : ENABLED WithLock(get_config(key, default)))
    /\ [][\A key \in Keys, default \in Defaults :
            get_config(key, default) =>
                /\ UNCHANGED <<conn, agent_config, config_backups, credentials, tables,
                               written>>
                /\ (~conn \/ ConfigRows(key) = {} \/ ConfigDamaged(key))
                        => ret'.value = default
      ]_vars
\* get_config returned the caller's default, a dict, for a key whose row is
\* damaged.
C27_Witness ==
    /\ conn /\ ret.op = "get_config" /\ ret.key = "k1"
    /\ ConfigDamaged("k1") /\ ret.value = PyDictStr

\* C28: after each successful connect the identification frame
\* agent_connected is the first frame handed to the new socket: no response,
\* status update or pong is handed to it earlier, and a socket the senders can
\* see has had the identification frame handed to it.
C28_IdentificationFirst ==
    /\ first_sent \in {"none", "agent_connected"}
    /\ (websocket /\ connected) => first_sent = "agent_connected"

\* The dispatcher's send_response is handed to the socket while the connect
\* is still completing, after the identification frame.
C28_Witness ==
    /\ mgr = "hello"
    /\ snd.kind = "send_response" /\ snd.pc = "ws"
    /\ first_sent = "agent_connected"

\* The variables a dropped frame could have changed: every field of the
\* manager (effect records the frame itself)
ManagerFields ==
    <<running, connected, reconnecting, websocket, sock, session, reconnect_interval,
      pending_commands, message_handlers, first_sent>>

\* C29: inbound frames are handled by type: a command frame is appended to
\* the pending-command queue, a ping frame gets a pong reply, any other type
\* with a registered handler invokes that handler exactly once, an unknown type
\* is dropped with no state change, and a handler registered for "command" or
\* "ping" is never called in place of the built-in handling.
C29_FramesByType ==
    [][\A type \in Frames :
          (effect'.type = type /\ handle_websocket_message(type)) =>
              /\ type = "command" =>
                    /\ pending_commands' = Append(pending_commands, ncmd')
                    /\ effect'.invoked = << >>
              /\ type = "ping" =>
                    /\ effect'.sent
                    /\ effect'.invoked = << >>
                    /\ UNCHANGED pending_commands
              /\ (type \notin {"command", "ping"} /\ type \in message_handlers) =>
                    /\ effect'.invoked = <<type>>
                    /\ UNCHANGED ManagerFields
              /\ (type \notin {"command", "ping"} /\ type \notin message_handlers) =>
                    /\ effect'.invoked = << >>
                    /\ ~effect'.sent
                    /\ UNCHANGED ManagerFields
      ]_vars

\* What C30 says of the rows a read returned from a table
ReadAsClaimed(rows, table, kind, since, limit) ==
    /\ \A i, j \in DOMAIN rows : i < j => rows[i].timestamp >= rows[j].timestamp
    /\ Len(rows) <= limit
    /\ \A i \in DOMAIN rows :
          /\ kind # None => rows[i].kind = kind
          /\ since # NULL => rows[i].timestamp >= since[1]
          /\ \E n \in DOMAIN tables[table] :
                /\ Verified(tables[table][n])
                /\ Entry(tables[table][n]) = rows[i]

\* C30: get_metrics and get_task_logs return rows ordered newest-first by
\* timestamp, never more than limit rows, only rows matching the type or task
\* filter and with timestamp >= since, and only rows whose checksum verified
\* after decryption.
C30_ReadsFilteredOrderedLimited ==
    [][\A kind \in KindFilters, since \in Sinces, limit \in ReadLimits :
          /\ (ret'.op = "get_metrics" /\ get_metrics(kind, since, limit))
                => ReadAsClaimed(ret'.rows, "metrics", kind, since, limit)
          /\ (ret'.op = "get_task_logs" /\ get_task_logs(kind, since, limit))
                => ReadAsClaimed(ret'.rows, "task_logs", kind, since, limit)
      ]_vars

\* The expiry of a credential row has passed.
Passed(r) == r.expires_at # NULL /\ r.expires_at[1] < clock

\* C31: cleanup_expired_credentials deletes exactly the credentials whose
\* expires_at has passed and returns their number; credentials with no expiry
\* or a future expiry are left unchanged, and a second call immediately
\* afterwards (it would return the number of rows the sweep selects then)
\* returns 0.
C31_CleanupExactlyExpired ==
    [][(ret'.op = "cleanup_expired_credentials" /\ conn /\ cleanup_expired_credentials) =>
          /\ credentials' = {r \in credentials : ~Passed(r)}
          /\ ret'.count = Cardinality({r \in credentials : Passed(r)})
          /\ Cardinality(SweptRows)' = 0
      ]_vars

\* One sweep removed two expired credentials.
C31_Witness ==
    /\ ret.op = "cleanup_expired_credentials" /\ ret.count = 2
    /\ credentials = {}

\* C38: lazy expiry and bulk expiry agree: for every stored credential and
\* every current time, get_credential treats the credential as expired
\* exactly when cleanup_expired_credentials would delete it, including the
\* boundary where expires_at equals the current time and the value
\* expires_at = 0.
C38_LazyAndBulkAgree ==
    conn => \A r \in credentials : LazilyExpired(r) <=> r \in SweptRows

\* The key of the returned dict that holds credential c
DictKey(c) ==
    IF c = <<"system", "device_id">> THEN "device_id"
    ELSE IF c = <<"communication", "api_key">> THEN "api_key"
    ELSE "registration_token"

\* The registration token is stored and has not expired.
TokenLive ==
    \E r \in CredRows(<<"registration", "token">>) :
        r.expires_at = NULL \/ clock <= r.expires_at[1]

\* C32: initialize_agent_credentials is idempotent on an initialized store:
\* the first call creates device_id, api_key and a registration token that
\* expires 24 hours later and stores them; a later call, while the
\* registration token has not expired, returns the three stored values and
\* changes no stored credential; and get_credential('system', 'device_id')
\* gives the returned device_id.
C32_SetupIdempotent ==
    [][\A n \in Draws :
          (ret'.op = "initialize_agent_credentials" /\ conn
           /\ initialize_agent_credentials(n)) =>
              /\ \A c \in CredKeys :
                    /\ kept'[c].value = ret'.dict[DictKey(c)]
                    /\ \E r \in CredRows(c)' :
                          decrypt_data(r.encrypted_value) = ret'.dict[DictKey(c)]
              /\ \A r \in CredRows(<<"system", "device_id">>)' : ~LazilyExpired(r)'
              /\ credentials = {} =>
                    /\ ret'.dict = Generated(n)
                    /\ \A r \in CredRows(<<"registration", "token">>)' :
                          r.expires_at = <<clock + 1>>
              /\ ((\A c \in CredKeys : CredRows(c) # {}) /\ TokenLive) =>
                    /\ UNCHANGED <<credentials, kept>>
                    /\ \A c \in CredKeys : ret'.dict[DictKey(c)] = kept[c].value
      ]_vars

\* A later call, a day after the first, found all three credentials and
\* returned the values the first call drew.
C32_Witness ==
    /\ ret.op = "initialize_agent_credentials" /\ ret.ok /\ ret.count = 0
    /\ ret.dict = Generated(1)
    /\ clock = 2
    /\ kept[<<"registration", "token">>].expires_at = <<2>>

\* C33: pre_register is all-or-nothing: when a call has failed, no pending
\* agent of its name is left behind without a token row, so that the name can
\* be registered again.
C33_PreRegisterAllOrNothing ==
    \A w \in Workers :
        (req[w].op = "register" /\ req[w].pc = "done" /\ req[w].result # "ok") =>
            \A i \in DOMAIN agents :
                (agents[i].name = req[w].name /\ agents[i].status = "pending") =>
                    \/ \E r \in tokens : r.agent_id = i
                    \/ \E v \in Workers : req[v].pc = "p_token" /\ req[v].agent_id = i

\* C34: a token activates only the agent it was issued for: an agent becomes
\* active only in the step in which a validate call succeeds with a token that
\* pre_register stored for that agent's id, and an active agent has a token
\* that was issued for it and redeemed (its row is gone).
C34_TokenActivatesOwnAgent ==
    /\ [](\A i \in DOMAIN agents :
            agents[i].status = "active" =>
                \E t \in issued : /\ t.agent_id = i
                                  /\ ~\E r \in tokens : r.token = t.token)
    /\ [][\A i \in DOMAIN agents' :
            (/\ agents'[i].status = "active"
             /\ (i \notin DOMAIN agents \/ agents[i].status # "active")) =>
                \E w \in Workers :
                    /\ req[w].pc = "v_write" /\ req'[w].pc = "done"
                    /\ req'[w].result = "ok"
                    /\ \E t \in issued : t.token = req[w].token /\ t.agent_id = i
      ]_vars

\* A validate call succeeded with the token issued for an agent, and that
\* agent is active.
C34_Witness ==
    \E w \in Workers :
        /\ req[w].op = "validate" /\ req[w].pc = "done" /\ req[w].result = "ok"
        /\ \E t \in issued :
              /\ t.token = req[w].token
              /\ agents[t.agent_id].status = "active"

\* is_connected()
is_connected == connected /\ websocket

\* C35: once stop() has returned, the manager never becomes connected
\* again: connected stays false, no socket is held and is_connected() returns
\* false in every later state.
C35_StoppedStaysDisconnected ==
    stopper = "done" => (~connected /\ ~websocket /\ ~is_connected)

\* C36: for every command that carries an id, handle_command sends at most
\* one response: a success response is never followed by an error response
\* for the same command.
C36_AtMostOneResponse ==
    [][handle_command => Len(responses') <= Len(responses) + 1]_vars

\* The elements of a sequence
Range(seq) == {seq[i] : i \in DOMAIN seq}

\* C37: every command returned by a get_pending_commands drain is dispatched
\* to handle_command: a command of the drained batch leaves the batch only by
\* being dispatched, whatever happens to the commands before it.
C37_DrainedBatchDispatched ==
    [][\A command \in Range(batch) :
          command \in Range(batch') \/ command \in Range(dispatched')]_vars

\* The rows of a table that match the filters of a read and are valid
ValidMatches(table, kind, since) == SelectSeq(Selected(table, kind, since), Verified)

\* What C39 says of the rows a read returned: when at least limit valid rows
\* match, exactly limit rows come back, and no valid row left out is newer
\* than a returned one.
FullPage(rows, table, kind, since, limit) ==
    LET valid == ValidMatches(table, kind, since)
    IN  Len(valid) >= limit =>
            /\ Len(rows) = limit
            /\ \A i \in DOMAIN rows :
                  Cardinality({n \in DOMAIN valid :
                                  valid[n].timestamp > rows[i].timestamp}) < limit

\* C39: corrupt rows do not reduce the number of valid rows a query returns:
\* whenever at least limit valid rows match the filters, get_metrics and
\* get_task_logs return exactly limit rows, the limit newest valid ones,
\* however many corrupt rows are newer than them.
C39_CorruptRowsCostNothing ==
    [][\A kind \in KindFilters, since \in Sinces, limit \in ReadLimits :
          /\ (ret'.op = "get_metrics" /\ conn /\ get_metrics(kind, since, limit))
                => FullPage(ret'.rows, "metrics", kind, since, limit)
          /\ (ret'.op = "get_task_logs" /\ conn /\ get_task_logs(kind, since, limit))
                => FullPage(ret'.rows, "task_logs", kind, since, limit)
      ]_vars


\* An open accepted socket of an agent
Serving(s, agent_id) ==
    /\ sockets[s].agent_id = agent_id
    /\ sockets[s].pc = "receiving"
    /\ sockets[s].open

\* The socket is still open and accepted after the step
StillServing(s, agent_id) ==
    /\ sockets'[s].agent_id = agent_id
    /\ sockets'[s].pc = "receiving"
    /\ sockets'[s].open

\* The entry of an agent is an open accepted socket of the agent
Registered(agent_id) ==
    /\ active_connections[agent_id] # 0
    /\ Serving(active_connections[agent_id], agent_id)

\* C40: active_connections[agent_id] is the agent's open accepted socket: a
\* socket that is accepted becomes the entry, and while the socket of the
\* entry stays open the entry stays an open accepted socket of the agent; the
\* cleanup run for an old socket leaves the entry of the new one in place.
C40_EntryIsOpenSocket ==
    [][\A agent_id \in 1..MaxAgents :
        /\ \A s \in 1..MaxSockets :
              (sockets[s].pc = "accepting" /\ sockets[s].agent_id = agent_id
                  /\ sockets'[s].pc = "receiving")
                  => active_connections'[agent_id] = s
        /\ (Registered(agent_id) /\ StillServing(active_connections[agent_id], agent_id))
              => /\ active_connections'[agent_id] # 0
                 /\ StillServing(active_connections'[agent_id], agent_id)]_vars
====
